---- MODULE Spec2Model ----
(***************************************************************************)
(* A model of the Streamlet-style consensus simulator of                   *)
(* tklenze/consensus_protocol: the block tree (blockchain.rs), the honest  *)
(* validator (node.rs), the adversary (attacker_node.rs) and the network   *)
(* simulator that drives epochs and rounds (network.rs).                   *)
(*                                                                         *)
(* Encodings.                                                              *)
(*  - Hash: SHA-256 is modelled as a collision-free function of its        *)
(*    preimage (parent ‖ e ‖ txs): the hash of a block is the sequence     *)
(*    parent-hash \o <<e, txs>>, the absent parent contributing the empty  *)
(*    sequence (the zero sentinel).                                        *)
(*  - Option<Hash>: <<>> is None, <<h>> is Some(h).                        *)
(*  - Signature: the pair <<signer, bytes>>; the bincode serialisation of  *)
(*    (MessageType, Hash) is the pair <<type, hash>>, empty bytes are <<>>. *)
(*  - Block.name and Block.children only feed the debug printer and are    *)
(*    left out; the diagnostics a validator prints with a type tag are     *)
(*    collected in its field diag.                                         *)
(*  - A HashSet is iterated in an unspecified order: wherever the code     *)
(*    takes "the first" member of a set, the model takes any member.       *)
(***************************************************************************)
EXTENDS Integers, Sequences, FiniteSets, TLC

MAXLENGTH_TXS == 10000
MAXLENGTH_SINGLE_TX == 2000

\* Number of epochs of a run that are followed in a network of honest
\* validators.
MaxEpoch == 5

\* Number of epochs of a run that are followed in a network with attackers.
MaxEpochByzantine == 8

\* Number of epochs of a run that are followed in a network of seven
\* validators.
MaxEpochSeven == 2

-----------------------------------------------------------------------------
(* utils.rs *)

\* short_hash(sha256_var(e)) for e = 1..16, reduced modulo 420 = lcm(1..7), so
\* that "% n" below is the code's value for every n that divides 420.
ShortHashOfEpoch == <<104, 216, 49, 252, 89, 199, 30, 36, 31, 5, 363, 26, 184, 132, 220, 386>>

ZeroHash == <<>>

\* Crypto::hash over parent_bytes ‖ e_bytes ‖ txs_bytes (Block::new).
HashOf(parent_hash, e, txs) ==
  (IF parent_hash = <<>> THEN ZeroHash ELSE parent_hash[1]) \o <<e, txs>>

\* bincode::serialize(&(MessageType, hash))
\* The signed payload without the MessageType that separates the domains.
SerializeNoDomain(type, hash) == <<"", hash>>

Serialize(type, hash) == <<type, hash>>

Sign(signer, bytes) == <<signer, bytes>>

CheckSignatureAlways(signer, plaintext, signature) == TRUE

CheckSignature(signer, plaintext, signature) == signature = Sign(signer, plaintext)

-----------------------------------------------------------------------------
(* blockchain.rs *)

BlockNew(parent_hash, e, txs, height) ==
  [parent_hash |-> parent_hash, e |-> e, txs |-> txs, height |-> height,
   hash |-> HashOf(parent_hash, e, txs)]

ValidateBlock(b) == Len(b.txs) < MAXLENGTH_TXS /\ b.e > 0

ToBlockMessage(b, sender, signature) ==
  [type |-> "BlockProposal", creator |-> sender, parent_hash |-> b.parent_hash,
   e |-> b.e, txs |-> b.txs, signer |-> sender, signature |-> signature]

ToVoteMessage(b, sender, signature) ==
  [type |-> "Vote", creator |-> sender, parent_hash |-> b.parent_hash,
   e |-> b.e, txs |-> b.txs, signer |-> sender, signature |-> signature]

GenesisBlock == BlockNew(<<>>, 0, "", 0)

Genesis == GenesisBlock.hash

BlockchainNew ==
  [blocks |-> (Genesis :> GenesisBlock),
   votes |-> << >>,
   notarized |-> {Genesis},
   finalized |-> {Genesis},
   block_by_epoch |-> <<{Genesis}>>]

ContainsBlock(chain, h) == h \in DOMAIN chain.blocks

\* Defined for h in blocks only (the code unwraps the lookup).
ParentOf(chain, h) == chain.blocks[h].parent_hash

\* The levels of block_by_epoch (1-based: level e + 1 holds epoch e) that hold a
\* member of the set s.
LevelsWith(chain, s) ==
  {l \in 1..Len(chain.block_by_epoch) : chain.block_by_epoch[l] \cap s # {}}

MaxOf(S) == CHOOSE x \in S : \A y \in S : y <= x

\* Every hash the backward scan of get_highest_notarized_block may return.
GetHighestNotarizedBlock(chain) ==
  LET ls == LevelsWith(chain, chain.notarized)
  IN  IF ls = {} THEN {Genesis}
      ELSE chain.block_by_epoch[MaxOf(ls)] \cap chain.notarized

\* Every hash highest_finalized_block may return; the empty set is its panic.
HighestFinalizedBlock(chain) ==
  LET ls == LevelsWith(chain, chain.finalized)
  IN  IF ls = {} THEN {}
      ELSE chain.block_by_epoch[MaxOf(ls)] \cap chain.finalized

\* Vec::resize(len, HashSet::new()): truncates as well as grows.
Resize(s, len) ==
  IF Len(s) >= len THEN SubSeq(s, 1, len)
  ELSE s \o [i \in 1..(len - Len(s)) |-> {}]

\* validate_and_extend accepting a block that does not validate.
ValidateAndExtendAlways(chain, b) == TRUE

ValidateAndExtendOk(chain, b) == ValidateBlock(b) \/ ContainsBlock(chain, b.hash)

\* The chain after a validate_and_extend that returned true.
ValidateAndExtend(chain, b) ==
  LET r == Resize(chain.block_by_epoch, b.e + 1)
  IN  [chain EXCEPT !.block_by_epoch = [r EXCEPT ![b.e + 1] = @ \cup {b.hash}],
                    !.blocks = (b.hash :> b) @@ @]

-----------------------------------------------------------------------------
(* node.rs: the honest validator *)

NodeNew(id, n) ==
  [id |-> id, n |-> n, chain |-> BlockchainNew,
   outgoing_messages |-> << >>, unprocessed_pool |-> << >>, tx_pool |-> << >>,
   diag |-> {}, is_attacker |-> FALSE, attacker_config |-> {}]

\* Debug::dbg with a type tag: the tag is remembered.
DbgType(nd, tag) == [nd EXCEPT !.diag = @ \cup {tag}]

\* The receivers of a broadcast, in the order of the loop 0..n skipping id.
Peers(nd) == [k \in 1..(nd.n - 1) |-> IF k - 1 < nd.id THEN k - 1 ELSE k]

BroadcastMessage(nd, m) ==
  [nd EXCEPT !.outgoing_messages = @ \o [k \in 1..(nd.n - 1) |-> <<Peers(nd)[k], m>>]]

Leader(n, e) == ShortHashOfEpoch[e] % n

\* build_block_txs: the payload and what is left of the pool.
RECURSIVE DrainTxs(_, _)
DrainTxs(txs, pool) ==
  IF pool # << >> /\ Len(pool[1]) + Len(txs) < MAXLENGTH_TXS
  THEN DrainTxs(txs \o pool[1], Tail(pool))
  ELSE [txs |-> txs, pool |-> pool]

\* The transactions of a pool, one after the other.
RECURSIVE ConcatTxs(_)
ConcatTxs(pool) ==
  IF pool = << >> THEN "" ELSE pool[1] \o ConcatTxs(Tail(pool))

\* A payload that packs the whole pool.
BuildBlockTxsWhole(nd) ==
  [txs |-> ToString(nd.id) \o ConcatTxs(nd.tx_pool), pool |-> << >>]

BuildBlockTxs(nd) == DrainTxs(ToString(nd.id), nd.tx_pool)

\* The hashes finalize's loop inserts, walking from h to the first finalized block.
RECURSIVE WalkBack(_, _)
WalkBack(chain, h) ==
  IF h \in chain.finalized THEN {}
  ELSE {h} \cup WalkBack(chain, ParentOf(chain, h)[1])

\* Whether that walk only unwraps lookups that succeed: parent_of(h) of a
\* block of the tree that has a parent.
RECURSIVE WalkBackDefined(_, _)
WalkBackDefined(chain, h) ==
  \/ h \in chain.finalized
  \/ /\ ContainsBlock(chain, h)
     /\ ParentOf(chain, h) # << >>
     /\ WalkBackDefined(chain, ParentOf(chain, h)[1])

\* finalize without its test of consecutive epoch numbers.
FinalizeAnyEpoch(nd, block_hash, e) ==
  IF block_hash \in nd.chain.finalized THEN nd
  ELSE IF ~ContainsBlock(nd.chain, block_hash) THEN DbgType(nd, "PANIC")
  ELSE LET block == nd.chain.blocks[block_hash]
       IN  IF block.parent_hash = << >> THEN DbgType(nd, "PANIC")
           ELSE IF ~ContainsBlock(nd.chain, block.parent_hash[1]) THEN DbgType(nd, "PANIC")
           ELSE IF block.parent_hash[1] \notin nd.chain.notarized THEN DbgType(nd, "ERROR")
           ELSE IF block_hash \notin nd.chain.notarized THEN DbgType(nd, "ERROR")
           ELSE IF ~WalkBackDefined(nd.chain, block_hash) THEN DbgType(nd, "PANIC")
           ELSE [nd EXCEPT !.chain.finalized = @ \cup WalkBack(nd.chain, block_hash)]

\* finalize inserting the block alone, without the loop over its ancestors.
FinalizeNoWalk(nd, block_hash, e) ==
  IF block_hash \in nd.chain.finalized THEN nd
  ELSE IF ~ContainsBlock(nd.chain, block_hash) THEN DbgType(nd, "PANIC")
  ELSE LET block == nd.chain.blocks[block_hash]
       IN  IF block.parent_hash = << >> THEN DbgType(nd, "PANIC")
           ELSE IF ~ContainsBlock(nd.chain, block.parent_hash[1]) THEN DbgType(nd, "PANIC")
           ELSE LET parent_hash == block.parent_hash[1]
                    parent == nd.chain.blocks[parent_hash]
                IN  IF parent_hash \notin nd.chain.notarized THEN DbgType(nd, "ERROR")
                    ELSE IF block_hash \notin nd.chain.notarized THEN DbgType(nd, "ERROR")
                    ELSE IF block.e # e THEN nd
                    ELSE IF e = 0 THEN DbgType(nd, "PANIC")
                    ELSE IF parent.e # e - 1 THEN nd
                    ELSE [nd EXCEPT !.chain.finalized = @ \cup {block_hash}]

\* The unwraps of the two lookups and of parent_of in the loop, and the
\* subtraction e - 1 on usize, panic when they fail.
Finalize(nd, block_hash, e) ==
  IF block_hash \in nd.chain.finalized THEN nd
  ELSE IF ~ContainsBlock(nd.chain, block_hash) THEN DbgType(nd, "PANIC")
  ELSE LET block == nd.chain.blocks[block_hash]
       IN  IF block.parent_hash = << >> THEN DbgType(nd, "PANIC")
           ELSE IF ~ContainsBlock(nd.chain, block.parent_hash[1]) THEN DbgType(nd, "PANIC")
           ELSE LET parent_hash == block.parent_hash[1]
                    parent == nd.chain.blocks[parent_hash]
                IN  IF parent_hash \notin nd.chain.notarized THEN DbgType(nd, "ERROR")
                    ELSE IF block_hash \notin nd.chain.notarized THEN DbgType(nd, "ERROR")
                    ELSE IF block.e # e THEN nd
                    ELSE IF e = 0 THEN DbgType(nd, "PANIC")
                    ELSE IF parent.e # e - 1 THEN nd
                    ELSE IF ~WalkBackDefined(nd.chain, block_hash) THEN DbgType(nd, "PANIC")
                    ELSE [nd EXCEPT !.chain.finalized =
                                        @ \cup WalkBack(nd.chain, block_hash)]

\* (n as f64 * 2.0 / 3.0) as usize
Quorum(n) == (2 * n) \div 3

\* notarize without its attempt to finalize the parent.
NotarizeNoFinalize(nd, block_hash) ==
  IF ~ContainsBlock(nd.chain, block_hash) THEN DbgType(nd, "PANIC")
  ELSE IF block_hash \notin DOMAIN nd.chain.votes THEN DbgType(nd, "PANIC")
  ELSE LET block == nd.chain.blocks[block_hash]
       IN  IF Cardinality(nd.chain.votes[block_hash]) < Quorum(nd.n) THEN nd
           ELSE IF block.parent_hash = << >> THEN DbgType(nd, "PANIC")
           ELSE IF ~ContainsBlock(nd.chain, block.parent_hash[1]) THEN DbgType(nd, "PANIC")
           ELSE [nd EXCEPT !.chain.notarized = @ \cup {block_hash}]

\* The unwraps of the lookups and of parent_of in the debug line come before the
\* SOUDNESS_ERROR branch: a hash outside blocks or without a votes entry, a
\* block without parent or with a parent outside blocks, panics.
Notarize(nd, block_hash) ==
  IF ~ContainsBlock(nd.chain, block_hash) THEN DbgType(nd, "PANIC")
  ELSE IF block_hash \notin DOMAIN nd.chain.votes THEN DbgType(nd, "PANIC")
  ELSE LET block == nd.chain.blocks[block_hash]
       IN  IF Cardinality(nd.chain.votes[block_hash]) < Quorum(nd.n) THEN nd
           ELSE IF block.parent_hash = << >> THEN DbgType(nd, "PANIC")
           ELSE IF ~ContainsBlock(nd.chain, block.parent_hash[1]) THEN DbgType(nd, "PANIC")
           ELSE Finalize([nd EXCEPT !.chain.notarized = @ \cup {block_hash}],
                         block.parent_hash[1], block.e - 1)

\* votes.insert(h, HashSet::new()) when the key is missing
SeedVotes(chain, h) ==
  IF h \in DOMAIN chain.votes THEN chain
  ELSE [chain EXCEPT !.votes = (h :> {}) @@ @]

AddVote(chain, h, signer) ==
  LET c == SeedVotes(chain, h)
  IN  [c EXCEPT !.votes = [@ EXCEPT ![h] = @ \cup {signer}]]

\* vote without the test that the block is the only one of its epoch.
VoteAnyway(nd, b) ==
  IF b.e + 1 > Len(nd.chain.block_by_epoch) THEN DbgType(nd, "PANIC")
  ELSE
    LET nd1 == Notarize([nd EXCEPT !.chain = AddVote(@, b.hash, nd.id)], b.hash)
    IN  BroadcastMessage(nd1,
          ToVoteMessage(b, nd.id, Sign(nd.id, Serialize("Vote", b.hash))))

Vote(nd, b) ==
  IF b.e + 1 > Len(nd.chain.block_by_epoch) THEN DbgType(nd, "PANIC")
  ELSE IF Cardinality(nd.chain.block_by_epoch[b.e + 1]) > 1 THEN nd
  ELSE LET nd1 == Notarize([nd EXCEPT !.chain = AddVote(@, b.hash, nd.id)], b.hash)
           signature == Sign(nd.id, Serialize("Vote", b.hash))
       IN  BroadcastMessage(nd1, ToVoteMessage(b, nd.id, signature))

\* propose_block installing the self-vote as the only entry of votes.
ProposeBlockOnFreshVotes(nd, e, parent_hash) ==
  LET built == BuildBlockTxs(nd)
      parent_height == nd.chain.blocks[parent_hash].height
      new_block == BlockNew(<<parent_hash>>, e, built.txs, parent_height + 1)
      chain1 == IF ValidateAndExtendOk(nd.chain, new_block)
                THEN ValidateAndExtend(nd.chain, new_block) ELSE nd.chain
      chain2 == [chain1 EXCEPT !.votes = (new_block.hash :> {nd.id})]
      signature == Sign(nd.id, Serialize("BlockProposal", new_block.hash))
  IN  BroadcastMessage([nd EXCEPT !.chain = chain2, !.tx_pool = built.pool],
                       ToBlockMessage(new_block, nd.id, signature))

\* propose_block with the parent that get_highest_notarized_block returned.
ProposeBlockOn(nd, e, parent_hash) ==
  LET built == BuildBlockTxs(nd)
      parent_height == nd.chain.blocks[parent_hash].height
      new_block == BlockNew(<<parent_hash>>, e, built.txs, parent_height + 1)
      chain1 == IF ValidateAndExtendOk(nd.chain, new_block)
                THEN ValidateAndExtend(nd.chain, new_block) ELSE nd.chain
      chain2 == [chain1 EXCEPT !.votes = (new_block.hash :> {nd.id}) @@ @]
      signature == Sign(nd.id, Serialize("BlockProposal", new_block.hash))
  IN  BroadcastMessage([nd EXCEPT !.chain = chain2, !.tx_pool = built.pool],
                       ToBlockMessage(new_block, nd.id, signature))

\* propose_block building a block of the epoch before the one that began.
ProposeBlockStale(nd, e) ==
  {ProposeBlockOn(nd, IF e > 1 THEN e - 1 ELSE e, ph)
     : ph \in GetHighestNotarizedBlock(nd.chain)}

ProposeBlock(nd, e) ==
  {ProposeBlockOn(nd, e, ph) : ph \in GetHighestNotarizedBlock(nd.chain)}

\* new_epoch without its test that the validator is the leader of the epoch.
NewEpochNodeAlways(nd, e) == ProposeBlock(nd, e)

NewEpochNode(nd, e) ==
  IF Leader(nd.n, e) = nd.id THEN ProposeBlock(nd, e) ELSE {nd}

\* receive_block without its test that the signer is the leader of the epoch.
ReceiveBlockAnyLeader(nd, b) ==
  IF b.parent_hash = << >> THEN {DbgType(nd, "ATTACK")}
  ELSE IF ~ContainsBlock(nd.chain, b.parent_hash[1])
  THEN {[nd EXCEPT !.unprocessed_pool = Append(@, b)]}
  ELSE
    LET parent == nd.chain.blocks[b.parent_hash[1]]
        new_block == BlockNew(b.parent_hash, b.e, b.txs, parent.height + 1)
    IN  IF ContainsBlock(nd.chain, new_block.hash) THEN {nd}
        ELSE IF ~CheckSignature(b.signer, Serialize("BlockProposal", new_block.hash),
                                b.signature)
        THEN {DbgType(nd, "ATTACK")}
        ELSE IF ~ValidateAndExtendOk(nd.chain, new_block) THEN {nd}
        ELSE
          LET chain1 == ValidateAndExtend(nd.chain, new_block)
              nd1 == [nd EXCEPT !.chain = AddVote(chain1, new_block.hash, b.signer)]
          IN  {BroadcastMessage(
                 IF new_block.height = nd1.chain.blocks[hn].height + 1
                 THEN Vote(nd1, new_block) ELSE nd1, b)
               : hn \in GetHighestNotarizedBlock(nd1.chain)}

\* receive_block inserting a proposal whose parent is unknown, at height 0,
\* instead of parking it.
ReceiveBlockOrphan(nd, b) ==
  IF b.parent_hash = << >> THEN {DbgType(nd, "ATTACK")}
  ELSE IF b.signer # Leader(nd.n, b.e) THEN {DbgType(nd, "ATTACK")}
  ELSE
    LET known == ContainsBlock(nd.chain, b.parent_hash[1])
        height == IF known THEN nd.chain.blocks[b.parent_hash[1]].height + 1 ELSE 0
        new_block == BlockNew(b.parent_hash, b.e, b.txs, height)
    IN  IF ContainsBlock(nd.chain, new_block.hash) THEN {nd}
        ELSE IF ~CheckSignature(b.signer, Serialize("BlockProposal", new_block.hash),
                                b.signature)
        THEN {DbgType(nd, "ATTACK")}
        ELSE IF ~ValidateAndExtendOk(nd.chain, new_block) THEN {nd}
        ELSE
          LET chain1 == ValidateAndExtend(nd.chain, new_block)
              nd1 == [nd EXCEPT !.chain = AddVote(chain1, new_block.hash, b.signer)]
          IN  {BroadcastMessage(
                 IF new_block.height = nd1.chain.blocks[hn].height + 1
                 THEN Vote(nd1, new_block) ELSE nd1, b)
               : hn \in GetHighestNotarizedBlock(nd1.chain)}

\* receive_block without its early return for a block already in the tree.
ReceiveBlockAgain(nd, b) ==
  IF b.parent_hash = << >> THEN {DbgType(nd, "ATTACK")}
  ELSE IF ~ContainsBlock(nd.chain, b.parent_hash[1])
  THEN {[nd EXCEPT !.unprocessed_pool = Append(@, b)]}
  ELSE IF b.signer # Leader(nd.n, b.e) THEN {DbgType(nd, "ATTACK")}
  ELSE
    LET parent == nd.chain.blocks[b.parent_hash[1]]
        new_block == BlockNew(b.parent_hash, b.e, b.txs, parent.height + 1)
    IN  IF ~CheckSignature(b.signer, Serialize("BlockProposal", new_block.hash),
                           b.signature)
        THEN {DbgType(nd, "ATTACK")}
        ELSE IF ~ValidateAndExtendOk(nd.chain, new_block) THEN {nd}
        ELSE
          LET chain1 == ValidateAndExtend(nd.chain, new_block)
              nd1 == [nd EXCEPT !.chain = AddVote(chain1, new_block.hash, b.signer)]
          IN  {BroadcastMessage(
                 IF new_block.height = nd1.chain.blocks[hn].height + 1
                 THEN Vote(nd1, new_block) ELSE nd1, b)
               : hn \in GetHighestNotarizedBlock(nd1.chain)}

\* receive_block; one result for each block get_highest_notarized_block may return.
ReceiveBlock(nd, b) ==
  IF b.parent_hash = << >> THEN {DbgType(nd, "ATTACK")}
  ELSE IF ~ContainsBlock(nd.chain, b.parent_hash[1])
  THEN {[nd EXCEPT !.unprocessed_pool = Append(@, b)]}
  ELSE IF b.signer # Leader(nd.n, b.e) THEN {DbgType(nd, "ATTACK")}
  ELSE
    LET parent == nd.chain.blocks[b.parent_hash[1]]
        new_block == BlockNew(b.parent_hash, b.e, b.txs, parent.height + 1)
    IN  IF ContainsBlock(nd.chain, new_block.hash) THEN {nd}
        ELSE IF ~CheckSignature(b.signer, Serialize("BlockProposal", new_block.hash),
                                b.signature)
        THEN {DbgType(nd, "ATTACK")}
        ELSE IF ~ValidateAndExtendOk(nd.chain, new_block) THEN {nd}
        ELSE
          LET chain1 == ValidateAndExtend(nd.chain, new_block)
              nd1 == [nd EXCEPT !.chain = AddVote(chain1, new_block.hash, b.signer)]
          IN  {BroadcastMessage(
                 IF new_block.height = nd1.chain.blocks[hn].height + 1
                 THEN Vote(nd1, new_block) ELSE nd1, b)
               : hn \in GetHighestNotarizedBlock(nd1.chain)}

\* receive_vote calling notarize whether or not the block is in the tree.
ReceiveVoteNotarizeAlways(nd, b) ==
  IF b.parent_hash = << >> THEN DbgType(nd, "ATTACK")
  ELSE
    LET hash == HashOf(b.parent_hash, b.e, b.txs)
        nd1 == [nd EXCEPT !.chain = SeedVotes(@, hash)]
    IN  IF b.signer \in nd1.chain.votes[hash] THEN nd1
        ELSE IF ~CheckSignature(b.signer, Serialize("Vote", hash), b.signature)
        THEN DbgType(nd1, "ATTACK")
        ELSE Notarize(BroadcastMessage([nd1 EXCEPT !.chain = AddVote(@, hash, b.signer)], b),
                      hash)

\* receive_vote without its early return for a vote already recorded.
ReceiveVoteNoDedup(nd, b) ==
  IF b.parent_hash = << >> THEN DbgType(nd, "ATTACK")
  ELSE
    LET hash == HashOf(b.parent_hash, b.e, b.txs)
        nd1 == [nd EXCEPT !.chain = SeedVotes(@, hash)]
    IN  IF ~CheckSignature(b.signer, Serialize("Vote", hash), b.signature)
        THEN DbgType(nd1, "ATTACK")
        ELSE
          LET nd2 == BroadcastMessage([nd1 EXCEPT !.chain = AddVote(@, hash, b.signer)], b)
          IN  IF ContainsBlock(nd2.chain, hash) THEN Notarize(nd2, hash) ELSE nd2

ReceiveVote(nd, b) ==
  IF b.parent_hash = << >> THEN DbgType(nd, "ATTACK")
  ELSE
    LET hash == HashOf(b.parent_hash, b.e, b.txs)
        nd1 == [nd EXCEPT !.chain = SeedVotes(@, hash)]
    IN  IF b.signer \in nd1.chain.votes[hash] THEN nd1
        ELSE IF ~CheckSignature(b.signer, Serialize("Vote", hash), b.signature)
        THEN DbgType(nd1, "ATTACK")
        ELSE
          LET nd2 == BroadcastMessage([nd1 EXCEPT !.chain = AddVote(@, hash, b.signer)], b)
          IN  IF ContainsBlock(nd2.chain, hash) THEN Notarize(nd2, hash) ELSE nd2

\* Node::incoming_message: the dispatch on the message's variant.
IncomingMessageNode(nd, m) ==
  IF m.type = "BlockProposal" THEN ReceiveBlock(nd, m) ELSE {ReceiveVote(nd, m)}

RECURSIVE FeedAll(_, _)
FeedAll(nds, msgs) ==
  IF msgs = << >> THEN nds
  ELSE FeedAll(UNION {IncomingMessageNode(nd, Head(msgs)) : nd \in nds}, Tail(msgs))

\* process_unprocessed_pool re-feeding the pool without draining it first.
ProcessUnprocessedPoolKeep(nd) == FeedAll({nd}, nd.unprocessed_pool)

\* process_unprocessed_pool: the pool is drained first, then each message re-fed.
ProcessUnprocessedPool(nd) ==
  FeedAll({[nd EXCEPT !.unprocessed_pool = << >>]}, nd.unprocessed_pool)

ValidateTransaction(tx) == Len(tx) > MAXLENGTH_SINGLE_TX

SendTransaction(nd, tx) ==
  IF ValidateTransaction(tx) THEN DbgType(nd, "USER_ATTACK")
  ELSE [nd EXCEPT !.tx_pool = Append(@, tx)]

-----------------------------------------------------------------------------
(* attacker_node.rs: the adversary wraps an honest Node *)

AttackerNodeNew(id, n, attacker_config) ==
  [NodeNew(id, n) EXCEPT !.is_attacker = TRUE, !.attacker_config = attacker_config]

\* AttackerNode::broadcast_message
AttackerBroadcastMessage(nd, m) ==
  IF "fail_stop" \in nd.attacker_config THEN nd ELSE BroadcastMessage(nd, m)

\* equivocate_message: m1 to the even peers, m2 to the odd ones.
EquivocateMessage(nd, m1, m2) ==
  [nd EXCEPT !.outgoing_messages =
     @ \o [k \in 1..(nd.n - 1) |->
             <<Peers(nd)[k], IF Peers(nd)[k] % 2 = 0 THEN m1 ELSE m2>>]]

FakeSignature == <<0, << >> >>

\* The branch of AttackerNode::propose_block taken with fake_block_signature or
\* equivocate, for the parent that get_highest_notarized_block returned.
AttackerProposeBlockOn(nd, e, parent_hash) ==
  LET cfg == nd.attacker_config
      parent == nd.chain.blocks[parent_hash]
      block1 == BlockNew(<<parent_hash>>, e, "1", parent.height + 1)
      block2 == BlockNew(<<parent_hash>>, e, "2", parent.height + 1)
      SigFor(b) == IF "fake_block_signature" \notin cfg
                   THEN Sign(nd.id, Serialize("BlockProposal", b.hash))
                   ELSE FakeSignature
      Extend(chain, b) == IF ValidateAndExtendOk(chain, b)
                          THEN ValidateAndExtend(chain, b) ELSE chain
      m1 == ToBlockMessage(block1, nd.id, SigFor(block1))
      m2 == ToBlockMessage(block2, nd.id, SigFor(block2))
      nd1 == [nd EXCEPT !.chain = Extend(@, block1)]
      nd2 == IF "equivocate" \notin cfg THEN AttackerBroadcastMessage(nd1, m1)
             ELSE EquivocateMessage(
                    [nd1 EXCEPT !.chain = [Extend(@, block2) EXCEPT
                                             !.votes = (block2.hash :> {nd.id}) @@ @]],
                    m1, m2)
  IN  [nd2 EXCEPT !.chain.votes = (block1.hash :> {nd.id}) @@ @]

AttackerProposeBlock(nd, e) ==
  IF /\ "fake_block_signature" \notin nd.attacker_config
     /\ "equivocate" \notin nd.attacker_config
  THEN ProposeBlock(nd, e)
  ELSE {AttackerProposeBlockOn(nd, e, ph) : ph \in GetHighestNotarizedBlock(nd.chain)}

AttackerNewEpoch(nd, e) ==
  IF "fail_stop" \in nd.attacker_config THEN {nd}
  ELSE IF Leader(nd.n, e) = nd.id \/ "always_leader" \in nd.attacker_config
       THEN AttackerProposeBlock(nd, e)
       ELSE {nd}

\* A vote that vote_everything could only emit by signing for validator 1.
BlockMessageToVoteForged(nd, b) ==
  [type |-> "Vote", creator |-> b.creator, parent_hash |-> b.parent_hash,
   e |-> b.e, txs |-> b.txs, signer |-> 1,
   signature |-> Sign(1, Serialize("Vote", HashOf(b.parent_hash, b.e, b.txs)))]

\* The vote of vote_everything: the proposal's signature bytes under the own id.
BlockMessageToVote(nd, b) ==
  [type |-> "Vote", creator |-> b.creator, parent_hash |-> b.parent_hash,
   e |-> b.e, txs |-> b.txs, signer |-> nd.id,
   signature |-> <<nd.id, b.signature[2]>>]

AttackerReceiveBlock(nd, b) ==
  {IF "vote_everything" \in nd.attacker_config
   THEN BroadcastMessage(nd1, BlockMessageToVote(nd, b)) ELSE nd1
   : nd1 \in ReceiveBlock(nd, b)}

\* incoming_message without the fail_stop test.
AttackerIncomingMessageAlways(nd, m) ==
  IF m.type = "BlockProposal" THEN AttackerReceiveBlock(nd, m)
  ELSE IncomingMessageNode(nd, m)

AttackerIncomingMessage(nd, m) ==
  IF "fail_stop" \in nd.attacker_config THEN {nd}
  ELSE IF m.type = "BlockProposal" THEN AttackerReceiveBlock(nd, m)
       ELSE IncomingMessageNode(nd, m)

-----------------------------------------------------------------------------
(* NodeTrait: the dynamic dispatch on Box<dyn NodeTrait> *)

TraitNewEpoch(nd, e) ==
  IF nd.is_attacker THEN AttackerNewEpoch(nd, e) ELSE NewEpochNode(nd, e)

TraitIncomingMessage(nd, m) ==
  IF nd.is_attacker THEN AttackerIncomingMessage(nd, m) ELSE IncomingMessageNode(nd, m)

-----------------------------------------------------------------------------
(* network.rs: the simulator *)

\* nodes, recv_queue, e: the fields of Network.  run: the network size, the
\* run method called (regime: "simple", "reorder" or "delays") and its argument
\* epoch_limit.  pc, round: the position in the body of the epoch loop.
\* pick: the outcome of the random draws of the current epoch's three rounds.
VARIABLES nodes, recv_queue, e, run, pc, round, pick

vars == <<nodes, recv_queue, e, run, pc, round, pick>>

Ids == 0..(run.n - 1)

NetworkNodes(n) == [i \in 0..(n - 1) |-> NodeNew(i, n)]

\* (2.0 / 3.0 * n as f64) as usize
HonestCount(n) == (2 * n) \div 3

NetworkNodesByzantine(n, attacker_config) ==
  [i \in 0..(n - 1) |-> IF i < HonestCount(n) THEN NodeNew(i, n)
                        ELSE AttackerNodeNew(i, n, attacker_config)]

\* The validators that are a Node, not an AttackerNode.
Honest == {i \in Ids : ~nodes[i].is_attacker}

EmptyQueues(n) == [i \in 0..(n - 1) |-> << >>]

\* The functions f on Ids with f[i] in C[i].
Choices(C) == {f \in [DOMAIN C -> UNION {C[i] : i \in DOMAIN C}] :
                 \A i \in DOMAIN C : f[i] \in C[i]}

\* The messages sender queues for receiver i, as send() pushes them.
RECURSIVE SentTo(_, _, _)
SentTo(out, sender, i) ==
  IF out = << >> THEN << >>
  ELSE (IF Head(out)[1] = i THEN <<<<Head(out)[2], sender>>>> ELSE << >>)
       \o SentTo(Tail(out), sender, i)

RECURSIVE SentByAll(_, _, _)
SentByAll(nds, sender, i) ==
  IF sender \notin DOMAIN nds THEN << >>
  ELSE SentTo(nds[sender].outgoing_messages, sender, i) \o SentByAll(nds, sender + 1, i)

\* send_all: every node's outgoing queue is drained into the receivers' queues.
SendAllQueues == [i \in Ids |-> recv_queue[i] \o SentByAll(nodes, 0, i)]

\* Every epoch of every run taken as one of the delayed epochs.
DelayedEpochAlways(ep) == TRUE

\* The first loop of run_delays_then_synchrony: epochs 1..epoch_limit / 2.
DelayedEpoch(ep) == run.regime = "delays" /\ ep <= run.epoch_limit \div 2

Delayed == DelayedEpoch(e)

\* A removal that also loses the messages queued before the k-th.
RemoveUpTo(s, k) == SubSeq(s, k + 1, Len(s))

RemoveAt(s, k) == SubSeq(s, 1, k - 1) \o SubSeq(s, k + 1, Len(s))

\* Whether the k-th message queued for i is among those the round delivers.
\* Outside the delayed epochs every queued message is.
Picked(i, k) ==
  \/ ~Delayed
  \/ /\ i \in pick[round].conn
     /\ recv_queue[i][k][1].e >= e - pick[round].lag

PickedAny == \E i \in Ids : \E k \in 1..Len(recv_queue[i]) : Picked(i, k)

\* The next message of the round: the queues are collected receiver by
\* receiver, and the shuffle leaves each receiver's messages in queue order or
\* reverses them (deliveries to different receivers commute within a round).
FirstPicked(i, k) ==
  /\ Picked(i, k)
  /\ \A k2 \in 1..Len(recv_queue[i]) :
       Picked(i, k2) => IF pick[round].rev THEN k2 <= k ELSE k2 >= k
  /\ \A i2 \in 0..(i - 1) : \A k2 \in 1..Len(recv_queue[i2]) : ~Picked(i2, k2)

\* nodes[i].incoming_message(m, j) for the k-th message (m, j) queued for i.
DeliverMsg(i, k) ==
  /\ nodes' \in {[nodes EXCEPT ![i] = nd] :
                   nd \in TraitIncomingMessage(nodes[i], recv_queue[i][k][1])}
  /\ recv_queue' = [recv_queue EXCEPT ![i] = RemoveAt(@, k)]
  /\ UNCHANGED <<e, run, pc, round, pick>>

\* What one call of pick_random_messages and its shuffle do: the messages of
\* the receivers in conn that are at most lag epochs old are picked, and each
\* receiver's picked messages keep their queue order or are reversed.
Draw(c, l, r) == [conn |-> c, lag |-> l, rev |-> r]

\* The same draw in each of the three rounds of an epoch.
EveryRound(d) == [k \in 1..3 |-> d]

\* recv_all: every queue is emptied, front to back.
InOrder == EveryRound(Draw(Ids, 0, FALSE))

\* randomize_messages: every message is delivered, each round in queue order
\* or reversed.
Shuffles == {EveryRound(Draw(Ids, 0, r)) : r \in BOOLEAN}

\* The groups of validators that a delayed epoch leaves reachable.
Groups == {{2}, {0, 2}, {0, 1, 3}, {1, 2, 3}}

\* The draws of the three rounds of a delayed epoch: the validators of one
\* group receive the messages of the current epoch in order, or one validator
\* catches up on the previous epoch as well, newest message first.
Patterns ==
  {EveryRound(Draw(c, 0, FALSE)) : c \in Groups}
    \cup {EveryRound(Draw({2}, 1, TRUE))}

\* A draw that picks nothing, and one that picks the current epoch's messages
\* of the validators in c, in queue order.
Nobody == Draw({}, 0, FALSE)

To(c) == Draw(c, 0, FALSE)

Quiet == EveryRound(Nobody)

\* The draws followed in the delayed epochs of a network of four validators
\* with attackers (validators 2 and 3), one to four for each epoch.  The
\* messages of an epoch are first queued by the send_all of round 1, so a draw
\* of round 1 can only pick messages of earlier epochs.
AttackerPatterns ==
  << {<<Nobody, To({1, 2}), To({0})>>, <<Nobody, To({1}), Nobody>>,
      EveryRound(To({0, 1, 2, 3}))},
     {<<Nobody, To({1, 2}), To({0})>>, Quiet, EveryRound(To({0, 1, 2, 3}))},
     {Quiet},
     {<<Nobody, To({1, 2}), To({2})>>, Quiet, EveryRound(To({0, 1, 2, 3}))},
     {Quiet},
     {<<Draw({2}, 3, FALSE), To({0, 2}), To({0})>>,
      <<Nobody, To({0, 1}), Draw({0}, 3, FALSE)>>,
      <<Nobody, To({0}), To({3})>>,
      EveryRound(To({0, 1, 2, 3}))},
     {<<Nobody, To({0, 1}), Nobody>>, Quiet, EveryRound(To({0, 1, 2, 3}))},
     {<<Draw({3}, 1, TRUE), To({3}), To({0})>>,
      <<Draw({0, 1}, 7, FALSE), Nobody, Nobody>>} >>

\* The argument epochs of the long run of honest validators,
\* run_delays_then_synchrony(16, fraction): eight delayed epochs and eight
\* synchronous ones, all of them followed.
LongRun == 16

\* The draws followed in the eight delayed epochs of the long run, one or two
\* for each epoch; lag 7 reaches back to the first epoch.
LongPatterns ==
  << {<<Nobody, To({1}), Nobody>>, EveryRound(To({0, 1, 2, 3}))},
     {<<Draw({0}, 2, FALSE), Nobody, Draw({2, 3}, 1, TRUE)>>},
     {<<Nobody, Nobody, To({1, 3})>>},
     {<<Nobody, To({3}), To({3})>>},
     {<<Draw({3}, 1, FALSE), Nobody, Draw({0}, 7, FALSE)>>},
     {<<Draw({1}, 3, TRUE), Draw({3}, 3, FALSE), Draw({0}, 2, TRUE)>>},
     {<<Draw({3}, 1, TRUE), Draw({2}, 3, FALSE), Nobody>>},
     {<<Draw({0, 1}, 2, FALSE), To({3}), Draw({1}, 2, TRUE)>>, Quiet} >>

\* The draws followed in the delayed epochs of a network of seven validators
\* with attackers (validators 4, 5 and 6).
SevenPatterns ==
  {EveryRound(To({0, 1, 2, 3, 4, 5, 6})),
   <<Nobody, To({0, 1}), To({0, 1, 6})>>,
   <<Nobody, To({0, 3}), To({2, 3})>>}

\* The draws followed for delayed epoch ep.
PatternsOf(ep) ==
  IF run.n = 7 THEN SevenPatterns
  ELSE IF Honest = Ids
  THEN IF run.epoch_limit = LongRun THEN LongPatterns[ep] ELSE Patterns
  ELSE IF ep <= Len(AttackerPatterns) THEN AttackerPatterns[ep] ELSE {Quiet}

\* The number of epochs of the run that are followed.
EpochBound ==
  IF run.n = 7 THEN MaxEpochSeven
  ELSE IF Honest = Ids
  THEN IF run.epoch_limit = LongRun THEN LongRun ELSE MaxEpoch
  ELSE MaxEpochByzantine

NewEpoch ==
  /\ pc = "new_epoch"
  /\ e < run.epoch_limit
  /\ e < EpochBound
  /\ e' = e + 1
  /\ nodes' \in Choices([i \in Ids |-> TraitNewEpoch(nodes[i], e + 1)])
  /\ pc' = "recv"
  /\ round' = 1
  /\ pick' \in IF DelayedEpoch(e + 1) THEN PatternsOf(e + 1)
               ELSE IF run.regime = "simple" THEN {InOrder} ELSE Shuffles
  /\ UNCHANGED <<recv_queue, run>>

\* One delivery of a round, in the order of collection.
Deliver ==
  /\ pc = "recv"
  /\ \E i \in Ids : \E k \in 1..Len(recv_queue[i]) :
       FirstPicked(i, k) /\ DeliverMsg(i, k)

\* An epoch of two rounds instead of three.
SendAllStepTwoRounds ==
  /\ recv_queue' = SendAllQueues
  /\ nodes' = [i \in Ids |-> [nodes[i] EXCEPT !.outgoing_messages = << >>]]
  /\ IF round < 2 THEN round' = round + 1 /\ pc' = "recv"
     ELSE round' = 1 /\ pc' = "pool"
  /\ UNCHANGED <<e, run, pick>>

SendAllStep ==
  /\ recv_queue' = SendAllQueues
  /\ nodes' = [i \in Ids |-> [nodes[i] EXCEPT !.outgoing_messages = << >>]]
  /\ IF round < 3 THEN round' = round + 1 /\ pc' = "recv"
     ELSE round' = 1 /\ pc' = "pool"
  /\ UNCHANGED <<e, run, pick>>

\* The round's deliveries are over: send_all.
SendAll == pc = "recv" /\ ~PickedAny /\ SendAllStep

\* The loop that calls process_unprocessed_pool on every node.
ProcessPools ==
  /\ pc = "pool"
  /\ nodes' \in Choices([i \in Ids |-> ProcessUnprocessedPool(nodes[i])])
  /\ pc' = "new_epoch"
  /\ UNCHANGED <<recv_queue, e, run, round, pick>>

InitNetwork(n, nds, regime, epoch_limit) ==
  /\ nodes = nds
  /\ recv_queue = EmptyQueues(n)
  /\ e = 0
  /\ run = [n |-> n, regime |-> regime, epoch_limit |-> epoch_limit]
  /\ pc = "new_epoch"
  /\ round = 1
  /\ pick = EveryRound(Draw(0..(n - 1), 0, FALSE))

\* The runs followed: run_simple and run_reorder, and run_delays_then_synchrony
\* with 1..MaxEpoch delayed epochs (an odd epoch_limit; the even one below it
\* is the same run without the last epoch).  Every run is followed up to epoch
\* MaxEpoch.
Runs == ({"simple", "reorder"} \X {MaxEpoch})
          \cup ({"delays"} \X {2 * h + 1 : h \in 1..MaxEpoch})

\* Network::new(4)
Init == \E r \in Runs : InitNetwork(4, NetworkNodes(4), r[1], r[2])

Next == NewEpoch \/ Deliver \/ SendAll \/ ProcessPools

Spec == Init /\ [][Next]_vars

\* The attacker configurations of test_one_third_misbehave_... and of
\* test_one_third_fake_sigs_..., and fake_block_signature alone.
Misbehave == {"always_leader", "vote_everything", "equivocate"}

FakeSigs == Misbehave \cup {"fake_block_signature"}

AttackerConfigs == {Misbehave, FakeSigs, {"fake_block_signature"}}

\* Network::new_byzantine(4, attacker_config) under
\* run_delays_then_synchrony(epoch_limit, fraction) with the epoch limits of
\* the two tests; 0 < fraction < 1, so that a round may pick any subset of the
\* queued messages.
InitByzantine ==
  \E cfg \in AttackerConfigs :
    InitNetwork(4, NetworkNodesByzantine(4, cfg), "delays",
                IF cfg = Misbehave THEN 30 ELSE 20)

SpecByzantine == InitByzantine /\ [][Next]_vars

\* The attacker configurations with fail_stop: alone, as in
\* test_one_third_stopped..., and together with every other option.
FailStops == {{"fail_stop"}, FakeSigs \cup {"fail_stop"}}

\* Network::new_byzantine(4, attacker_config) under run_simple(10) and under
\* run_delays_then_synchrony(50, fraction), the runs of the two tests.
InitFailStop ==
  \E cfg \in FailStops : \E r \in {<<"simple", 10>>, <<"delays", 50>>} :
    InitNetwork(4, NetworkNodesByzantine(4, cfg), r[1], r[2])

SpecFailStop == InitFailStop /\ [][Next]_vars

\* Network::new(4) under run_delays_then_synchrony(LongRun, fraction),
\* 0 < fraction < 1.
InitLong == InitNetwork(4, NetworkNodes(4), "delays", LongRun)

SpecLong == InitLong /\ [][Next]_vars

\* Network::new_byzantine(7, attacker_config) with the configuration of
\* test_one_third_misbehave_..., under run_delays_then_synchrony(30, fraction):
\* a quorum is four votes, and the leader of epochs 1 and 2 is the attacker 6.
InitSeven == InitNetwork(7, NetworkNodesByzantine(7, Misbehave), "delays", 30)

SpecSeven == InitSeven /\ [][Next]_vars

\* The string of n copies of s.
RECURSIVE Repeat(_, _)
Repeat(s, n) ==
  IF n = 0 THEN ""
  ELSE LET h == Repeat(s, n \div 2)
       IN  h \o h \o (IF n % 2 = 1 THEN s ELSE "")

\* The transactions sent to the validators: a short one, the longest one that
\* send_transaction accepts, one a character shorter and one a character too
\* long.
Transactions ==
  {"t", Repeat("u", MAXLENGTH_SINGLE_TX - 1), Repeat("v", MAXLENGTH_SINGLE_TX),
   Repeat("w", MAXLENGTH_SINGLE_TX + 1)}

\* The number of transactions sent to each validator.
MaxTxs == 5

\* send_transaction for each transaction of txs in turn.
RECURSIVE SendTransactions(_, _)
SendTransactions(nd, txs) ==
  IF txs = << >> THEN nd
  ELSE SendTransactions(SendTransaction(nd, txs[1]), Tail(txs))

\* Network::new(4), MaxTxs transactions sent to every validator, under
\* run_simple(2): validator 0 leads both epochs and builds two blocks.
InitTxs ==
  \E txs \in [1..MaxTxs -> Transactions] :
    InitNetwork(4, [i \in 0..3 |-> SendTransactions(NodeNew(i, 4), txs)],
                "simple", 2)

SpecTxs == InitTxs /\ [][Next]_vars

\* The networks of Spec, SpecByzantine and SpecFailStop: honest validators only, with misbehaving attackers and
\* with stopped attackers.
SpecAny == (Init \/ InitByzantine \/ InitFailStop) /\ [][Next]_vars

-----------------------------------------------------------------------------
(* test_network.rs: the consistency oracle *)

\* The chain consistency() builds: from h through the parents to genesis, reversed.
RECURSIVE ChainTo(_, _)
ChainTo(chain, h) ==
  IF ParentOf(chain, h) = << >> THEN <<h>>
  ELSE Append(ChainTo(chain, ParentOf(chain, h)[1]), h)

\* Every chain consistency() may build for a node.
FinalizedChains(chain) == {ChainTo(chain, h) : h \in HighestFinalizedBlock(chain)}

IsPrefix(prefix, main_list) ==
  /\ Len(prefix) <= Len(main_list)
  /\ SubSeq(main_list, 1, Len(prefix)) = prefix

SeqRange(s) == {s[k] : k \in 1..Len(s)}

\* Consistency criterion #1 for one node.
ChainEqualsSet(chain) ==
  \A c \in FinalizedChains(chain) : SeqRange(c) = chain.finalized

\* Consistency criterion #2.
PairwisePrefix ==
  \A i, j \in Honest :
    \A c1 \in FinalizedChains(nodes[i].chain), c2 \in FinalizedChains(nodes[j].chain) :
      IsPrefix(c1, c2) \/ IsPrefix(c2, c1)

-----------------------------------------------------------------------------
(* The state a validator holds, as the properties below read it *)

Chain(i) == nodes[i].chain

BlocksOf(i) == DOMAIN Chain(i).blocks

\* votes.get(h), the empty set while no entry exists
VotesOf(i, h) == IF h \in DOMAIN Chain(i).votes THEN Chain(i).votes[h] ELSE {}

\* The hashes on the path from h back to genesis.
Ancestry(i, h) == SeqRange(ChainTo(Chain(i), h))

\* The blocks whose parent is h.
ChildrenOf(i, h) == {c \in BlocksOf(i) : Chain(i).blocks[c].parent_hash = <<h>>}

-----------------------------------------------------------------------------
(* Properties *)

\* C1: in a network of honest validators, after every step of a run the
\* finalized chains of every two validators (the path from the highest
\* finalized block back to genesis) are prefix-comparable.
C1_SafetyHonest ==
  \A i, j \in Ids :
    \A c1 \in FinalizedChains(Chain(i)), c2 \in FinalizedChains(Chain(j)) :
      IsPrefix(c1, c2) \/ IsPrefix(c2, c1)

\* C3: for every honest validator the hashes on the path from the highest
\* finalized block back to genesis are exactly its finalized set.
C3_ChainEqualsSet ==
  \A i \in Honest : ChainEqualsSet(Chain(i))

\* C4: every notarized block other than genesis has strictly more than 2n/3
\* recorded votes.
C4_QuorumThreshold ==
  \A i \in Ids : \A h \in Chain(i).notarized \ {Genesis} :
    3 * Cardinality(VotesOf(i, h)) > 2 * run.n

\* C6: at every validator genesis is finalized and every finalized block is
\* notarized, the ancestors that finalize inserts included.
C6_SetInclusion ==
  \A i \in Ids :
    /\ Genesis \in Chain(i).finalized
    /\ Chain(i).finalized \subseteq Chain(i).notarized

\* C7: no honest validator ever reaches an ERROR or SOUDNESS_ERROR branch.
C7_NoInternalDiagnostics ==
  \A i \in Honest : nodes[i].diag \cap {"ERROR", "SOUDNESS_ERROR"} = {}

\* C8: at an honest validator every block of the tree whose recorded votes
\* exceed 2n/3 is notarized, whatever the order in which the block and its
\* votes arrived.
C8_NotarizationOnQuorum ==
  \A i \in Honest : \A h \in BlocksOf(i) :
    3 * Cardinality(VotesOf(i, h)) > 2 * run.n => h \in Chain(i).notarized

\* b, its parent and one of its children are notarized at i, in three
\* consecutive epochs.
ConsecutiveTriple(i, b) ==
  LET bl == Chain(i).blocks
  IN  /\ b \in Chain(i).notarized
      /\ bl[b].parent_hash # << >>
      /\ bl[b].parent_hash[1] \in Chain(i).notarized
      /\ bl[bl[b].parent_hash[1]].e = bl[b].e - 1
      /\ \E c \in ChildrenOf(i, b) :
           c \in Chain(i).notarized /\ bl[c].e = bl[b].e + 1

\* C9: every finalized block other than genesis is the middle block of three
\* notarized blocks of consecutive epochs, or an ancestor of such a block.
C9_FinalizationRule ==
  \A i \in Ids : \A h \in Chain(i).finalized \ {Genesis} :
    \E b \in BlocksOf(i) : ConsecutiveTriple(i, b) /\ h \in Ancestry(i, b)

\* C9 witness: a validator has finalized the middle block of a triple and,
\* walking back, an ancestor of it that is not itself such a middle block.
C9_Witness ==
  \E i \in Ids : \E h, b \in Chain(i).finalized \ {Genesis} :
    /\ ConsecutiveTriple(i, b)
    /\ h \in Ancestry(i, b)
    /\ ~ConsecutiveTriple(i, h)

\* Two blocks of an equivocated pair in the tree of i: the same epoch and
\* parent, different payloads.
Siblings(i, h1, h2) ==
  /\ h1 # h2
  /\ Chain(i).blocks[h1].e = Chain(i).blocks[h2].e
  /\ Chain(i).blocks[h1].parent_hash = Chain(i).blocks[h2].parent_hash

\* C2: with attackers configured with always_leader, vote_everything and
\* equivocate, the finalized chains of the honest validators are pairwise
\* prefix-comparable and no honest validator has both blocks of an
\* equivocated pair in its finalized set.
C2_SafetyUnderEquivocation ==
  (\A i \in Ids \ Honest : nodes[i].attacker_config = Misbehave) =>
    /\ PairwisePrefix
    /\ \A i \in Honest : \A h1, h2 \in Chain(i).finalized : ~Siblings(i, h1, h2)

\* C5: an honest validator has its own id in the recorded votes of at most
\* one block of each epoch.
C5_OneVotePerEpoch ==
  \A i \in Honest : \A h1, h2 \in BlocksOf(i) :
    (h1 # h2 /\ i \in VotesOf(i, h1) /\ i \in VotesOf(i, h2))
      => Chain(i).blocks[h1].e # Chain(i).blocks[h2].e

\* The attackers sign their proposals with (0, vec![]).
Faking == \E i \in Ids \ Honest : "fake_block_signature" \in nodes[i].attacker_config

\* The epoch in the preimage of hash h.
EpochOf(h) == h[Len(h) - 1]

\* h is the hash of a block of an epoch whose leader is an attacker.
OfAttackerEpoch(h) == h # Genesis /\ Leader(run.n, EpochOf(h)) \notin Honest

\* The messages validator i has sent or is about to send.
SentBy(i) ==
  {nodes[i].outgoing_messages[k][2] : k \in 1..Len(nodes[i].outgoing_messages)}
    \cup UNION {{recv_queue[j][k][1] : k \in {k2 \in 1..Len(recv_queue[j]) :
                                                recv_queue[j][k2][2] = i}}
                : j \in Ids}

\* C10: when the attackers fake their signatures, every proposal of an epoch
\* they lead carries the invalid signature; no honest validator has a block
\* of such an epoch in its tree or a recorded vote for one, and no honest
\* validator sends a message with the invalid signature or about such a block.
C10_FakeSignedRejected ==
  Faking => \A i \in Honest :
    /\ \A h \in BlocksOf(i) : ~OfAttackerEpoch(h)
    /\ \A h \in DOMAIN Chain(i).votes : OfAttackerEpoch(h) => Chain(i).votes[h] = {}
    /\ \A m \in SentBy(i) :
         /\ m.signature # FakeSignature
         /\ ~OfAttackerEpoch(HashOf(m.parent_hash, m.e, m.txs))

\* A proposal of the block with hash hb is queued for i, about to be sent to
\* i, or parked in the unprocessed pool of i.
Pending(i, hb) ==
  \E m \in {recv_queue[i][k][1] : k \in 1..Len(recv_queue[i])}
             \cup {nodes[i].unprocessed_pool[k] : k \in 1..Len(nodes[i].unprocessed_pool)}
             \cup UNION {{nodes[j].outgoing_messages[k][2] :
                            k \in {k2 \in 1..Len(nodes[j].outgoing_messages) :
                                      nodes[j].outgoing_messages[k2][1] = i}}
                         : j \in Ids} :
    m.type = "BlockProposal" /\ HashOf(m.parent_hash, m.e, m.txs) = hb

\* C10 witness: the attackers only fake their signatures, so that an honest
\* validator flags an attack only for an invalid signature.  An honest
\* validator has been delivered the leader's fake-signed proposal of a block
\* whose parent it holds, has flagged the attack and does not hold the block,
\* while another fake-signed proposal is parked in its unprocessed pool.
C10_Witness ==
  \E a \in Ids \ Honest : \E i \in Honest :
    /\ nodes[a].attacker_config = {"fake_block_signature"}
    /\ "ATTACK" \in nodes[i].diag
    /\ \E hb \in BlocksOf(a) \ BlocksOf(i) :
         /\ OfAttackerEpoch(hb)
         /\ Leader(run.n, EpochOf(hb)) = a
         /\ Chain(a).blocks[hb].parent_hash[1] \in BlocksOf(i)
         /\ ~Pending(i, hb)
    /\ \E k \in 1..Len(nodes[i].unprocessed_pool) :
         nodes[i].unprocessed_pool[k].signature = FakeSignature

\* The messages fed to validator i by the step being taken: the message a
\* round delivers, or the messages process_unprocessed_pool drains.
FedTo(i) ==
  IF pc = "recv"
  THEN {recv_queue[i][k][1] : k \in {k2 \in 1..Len(recv_queue[i]) : FirstPicked(i, k2)}}
  ELSE IF pc = "pool"
  THEN {nodes[i].unprocessed_pool[k] : k \in 1..Len(nodes[i].unprocessed_pool)}
  ELSE {}

\* The block hash a message is about.
HashOfMessage(m) == HashOf(m.parent_hash, m.e, m.txs)

\* The proposals among them of the block with hash h that the leader of the
\* block's epoch signed.
LeaderProposals(i, h) ==
  {m \in FedTo(i) : /\ m.type = "BlockProposal"
                    /\ HashOfMessage(m) = h
                    /\ m.signer = Leader(run.n, m.e)}

\* C11: a step inserts a block into the tree of an honest validator, or has
\* the validator record its own vote for a block, only when the validator
\* proposes the block as leader of the new epoch or is fed a proposal of the
\* block signed by the leader of the block's epoch, from a delivery or from
\* its unprocessed pool; and every proposal an honest validator sends or
\* relays is signed by the leader of the proposal's epoch.
C11_LeaderCheck ==
  /\ [][\A i \in Honest :
          \A h \in (BlocksOf(i)' \ BlocksOf(i))
                     \cup {h2 \in DOMAIN Chain(i).votes' :
                             i \in VotesOf(i, h2)' /\ i \notin VotesOf(i, h2)} :
            \/ pc = "new_epoch" /\ Leader(run.n, e') = i /\ EpochOf(h) = e'
            \/ LeaderProposals(i, h) # {}]_vars
  /\ [](\A i \in Honest : \A m \in SentBy(i) :
          m.type = "BlockProposal" => m.signer = Leader(run.n, m.e))

\* C11 witness: with attackers that always propose, an honest validator
\* holds the parent of a block that an attacker proposed to it (payload "1"
\* for the even peers, "2" for the odd ones) in an epoch an honest validator
\* leads; every proposal of that block sent to the validator has been
\* delivered, none is parked, and the block is not in its tree; the proposal
\* of another such block is parked in its unprocessed pool.
C11_Witness ==
  \E a \in Ids \ Honest : \E i \in Honest :
    /\ nodes[a].attacker_config = Misbehave
    /\ \E hb \in BlocksOf(a) \ BlocksOf(i) :
         /\ Leader(run.n, EpochOf(hb)) \in Honest
         /\ Chain(a).blocks[hb].txs = (IF i % 2 = 0 THEN "1" ELSE "2")
         /\ Chain(a).blocks[hb].txs # ToString(Leader(run.n, EpochOf(hb)))
         /\ Chain(a).blocks[hb].parent_hash[1] \in BlocksOf(i)
         /\ ~Pending(i, hb)
    /\ \E k \in 1..Len(nodes[i].unprocessed_pool) :
         LET m == nodes[i].unprocessed_pool[k]
         IN  m.type = "BlockProposal" /\ m.signer # Leader(run.n, m.e)

\* C12: no step of a validator, honest or attacker, in any of the networks
\* and regimes unwraps a failed lookup, indexes block_by_epoch outside its
\* length or subtracts below zero (the steps that would are recorded as
\* PANIC), and highest_finalized_block finds a finalized block in
\* block_by_epoch.
C12_NoHalt ==
  \A i \in Ids :
    /\ "PANIC" \notin nodes[i].diag
    /\ HighestFinalizedBlock(Chain(i)) # {}

\* C12 witness: a validator has recorded a vote for a block it does not hold
\* (receive_vote skipped notarize), has notarized a block and finalized its
\* parent walking back over more than one block, and its block_by_epoch is
\* shorter than the epoch of a block it holds.
C12_Witness ==
  \E i \in Ids :
    /\ \E h \in DOMAIN Chain(i).votes : h \notin BlocksOf(i) /\ Chain(i).votes[h] # {}
    /\ Cardinality(Chain(i).finalized) > 2
    /\ \E h \in BlocksOf(i) : Chain(i).blocks[h].e + 1 > Len(Chain(i).block_by_epoch)

\* C13: no step removes anything a validator holds: the blocks, the votes
\* recorded for each hash, the notarized set and the finalized set after a
\* step include what they were before it, also in the step in which a
\* proposer installs its self-vote.
C13_MonotoneGrowth ==
  [][\A i \in Ids :
       /\ BlocksOf(i) \subseteq BlocksOf(i)'
       /\ \A h \in DOMAIN Chain(i).votes : VotesOf(i, h) \subseteq VotesOf(i, h)'
       /\ Chain(i).notarized \subseteq Chain(i).notarized'
       /\ Chain(i).finalized \subseteq Chain(i).finalized']_vars

\* C13 witness: an honest validator that led two epochs holds both blocks
\* it proposed; the first has collected a vote besides its own and is
\* notarized, and the second still has the self-vote the proposer installed.
C13_Witness ==
  \E i \in Honest : \E h1, h2 \in BlocksOf(i) \ {Genesis} :
    /\ Leader(run.n, EpochOf(h1)) = i /\ Leader(run.n, EpochOf(h2)) = i
    /\ EpochOf(h1) < EpochOf(h2)
    /\ Chain(i).blocks[h1].txs = ToString(i) /\ Chain(i).blocks[h2].txs = ToString(i)
    /\ {i} \subseteq VotesOf(i, h1) /\ VotesOf(i, h1) # {i}
    /\ h1 \in Chain(i).notarized
    /\ i \in VotesOf(i, h2)
    /\ Cardinality(Chain(i).finalized) > 1

\* C14: at every validator the parent of every finalized block other than
\* genesis is finalized.
C14_FinalizedParentClosed ==
  \A i \in Ids : \A h \in Chain(i).finalized \ {Genesis} :
    /\ h \in BlocksOf(i)
    /\ ParentOf(Chain(i), h) # << >>
    /\ ParentOf(Chain(i), h)[1] \in Chain(i).finalized

\* C14 witness: a validator has finalized a block and its parent, the parent
\* is neither genesis nor of the epoch just before the block's, so that the
\* parent was finalized earlier or by the loop over the ancestors.
C14_Witness ==
  \E i \in Ids : \E h \in Chain(i).finalized \ {Genesis} :
    LET p == ParentOf(Chain(i), h)[1]
    IN  /\ p # Genesis
        /\ p \in Chain(i).finalized
        /\ Chain(i).blocks[p].e # Chain(i).blocks[h].e - 1

\* The proposals fed to validator i by a delivery whose parent i does not hold.
OrphansFedTo(i) ==
  {m \in FedTo(i) : /\ pc = "recv"
                    /\ m.type = "BlockProposal"
                    /\ m.parent_hash # << >>
                    /\ m.parent_hash[1] \notin BlocksOf(i)}

\* C15: at every validator, honest or attacker, every block of the tree
\* other than genesis has its parent in the tree; and a delivery of a
\* proposal whose parent the validator does not hold leaves the tree as it
\* was and appends the proposal to the unprocessed pool (a stopped attacker
\* ignores it).
C15_TreeParentClosed ==
  /\ [](\A i \in Ids : \A h \in BlocksOf(i) \ {Genesis} :
          /\ ParentOf(Chain(i), h) # << >>
          /\ ParentOf(Chain(i), h)[1] \in BlocksOf(i))
  /\ [][\A i \in Ids : \A m \in OrphansFedTo(i) :
          /\ BlocksOf(i)' = BlocksOf(i)
          /\ nodes'[i].unprocessed_pool =
               IF "fail_stop" \in nodes[i].attacker_config THEN << >>
               ELSE Append(nodes[i].unprocessed_pool, m)]_vars

\* C15 witness: a validator has a proposal parked in its unprocessed pool
\* whose parent it does not hold, and holds a block built on a block other
\* than genesis.
C15_Witness ==
  \E i \in Ids :
    /\ \E k \in 1..Len(nodes[i].unprocessed_pool) :
         LET m == nodes[i].unprocessed_pool[k]
         IN  m.type = "BlockProposal" /\ m.parent_hash[1] \notin BlocksOf(i)
    /\ \E h \in BlocksOf(i) \ {Genesis} : ParentOf(Chain(i), h) # <<Genesis>>

\* The positions of outgoing_messages that a step of validator i appended
\* (send_all drains the queue, every other step only appends to it).
Appended(i) ==
  IF Len(nodes'[i].outgoing_messages) < Len(nodes[i].outgoing_messages) THEN {}
  ELSE (Len(nodes[i].outgoing_messages) + 1)..Len(nodes'[i].outgoing_messages)

\* Those among them that queue, for receiver j, a Vote for hash h that i signed.
OwnVotesAppended(i, j, h) ==
  {k \in Appended(i) :
     LET out == nodes'[i].outgoing_messages[k]
     IN  /\ out[1] = j
         /\ out[2].type = "Vote"
         /\ out[2].signer = i
         /\ HashOfMessage(out[2]) = h}

\* C16: a step in which an honest validator queues a Vote of its own for a
\* block queues one copy for each peer, and is the step that inserts the
\* block into its tree; no block leaves the tree, so that over a run the
\* validator broadcasts at most one Vote for each block hash, however often
\* the proposal is fed to it by deliveries, relays and the unprocessed pool.
C16_NoDoubleVote ==
  [][\A i \in Honest :
       /\ BlocksOf(i) \subseteq BlocksOf(i)'
       /\ \A k \in Appended(i) :
            LET m == nodes'[i].outgoing_messages[k][2]
            IN  (m.type = "Vote" /\ m.signer = i) =>
                  /\ HashOfMessage(m) \notin BlocksOf(i)
                  /\ HashOfMessage(m) \in BlocksOf(i)'
                  /\ \A j \in Ids : Cardinality(OwnVotesAppended(i, j, HashOfMessage(m))) <= 1]_vars

\* C16 witness: an honest validator has voted for a block it does not lead;
\* another honest validator that does not lead it holds the block and so
\* relayed its proposal, and every proposal of the block sent to the first
\* validator has been delivered: the leader's and the relayed one.
C16_Witness ==
  \E i, j \in Honest : \E h \in (BlocksOf(i) \cap BlocksOf(j)) \ {Genesis} :
    /\ i # j
    /\ Leader(run.n, EpochOf(h)) \notin {i, j}
    /\ i \in VotesOf(i, h)
    /\ ~Pending(i, h)

\* The epoch loop has finished the body of epoch e: the three rounds and the
\* processing of the unprocessed pools.
EndOfEpoch == pc = "new_epoch" /\ e >= 1

\* The blocks of validator i with the epoch and the payload of the block
\* that the leader of epoch ep builds in epoch ep.
LeaderBlocks(i, ep) ==
  {h \in BlocksOf(i) \ {Genesis} :
     /\ Chain(i).blocks[h].e = ep
     /\ Chain(i).blocks[h].txs = ToString(Leader(run.n, ep))}

\* C17: in a network of honest validators under run_simple or run_reorder,
\* at the end of every epoch e the block that leader(e) proposed in epoch e
\* is in the tree of every validator and notarized at every validator.
C17_ThreeRoundsSuffice ==
  (run.regime \in {"simple", "reorder"} /\ EndOfEpoch) =>
    \E h \in LeaderBlocks(Leader(run.n, e), e) :
      \A i \in Ids : h \in BlocksOf(i) /\ h \in Chain(i).notarized

\* C17 witness: run_reorder has finished its third epoch or a later one, the
\* rounds of that epoch delivered newest first, and the leader's block of
\* the epoch is notarized at every validator.
C17_Witness ==
  /\ run.regime = "reorder"
  /\ EndOfEpoch
  /\ e >= 3
  /\ \A k \in 1..3 : pick[k].rev
  /\ \E h \in LeaderBlocks(Leader(run.n, e), e) :
       \A i \in Ids : h \in Chain(i).notarized

\* The synchronous epochs of a run of run_delays_then_synchrony that have been
\* completed.
SyncEpochsDone ==
  IF run.regime = "delays" /\ pc = "new_epoch" /\ e > run.epoch_limit \div 2
  THEN e - run.epoch_limit \div 2 ELSE 0

\* The number of synchronous epochs taken as enough for finalization to
\* resume: the whole second half of the long run.
EnoughEpochs == LongRun \div 2

\* C18: in a network of honest validators run under
\* run_delays_then_synchrony, whatever was delivered in the delayed first
\* half, once enough synchronous epochs have been completed every validator
\* has finalized a block beyond genesis.
C18_LivenessAfterDelays ==
  (Honest = Ids /\ SyncEpochsDone >= EnoughEpochs)
    => \A i \in Ids : Chain(i).finalized # {Genesis}

\* The attackers configured with fail_stop.
Stopped == {i \in Ids \ Honest : "fail_stop" \in nodes[i].attacker_config}

\* The messages in flight that validator i sent.
InFlightFrom(i) ==
  UNION {{<<j, k>> : k \in {k2 \in 1..Len(recv_queue[j]) : recv_queue[j][k2][2] = i}}
           : j \in Ids}

\* C19: an attacker whose configuration contains fail_stop, whatever else it
\* contains, keeps the block tree, votes, notarized and finalized sets and
\* unprocessed pool of its construction, queues no outgoing message and has
\* no message in flight, at every point of the run.
C19_FailStopDominates ==
  \A i \in Stopped :
    /\ nodes[i].chain = BlockchainNew
    /\ nodes[i].unprocessed_pool = << >>
    /\ nodes[i].outgoing_messages = << >>
    /\ InFlightFrom(i) = {}

\* A stopped attacker that is also configured with always_leader and
\* equivocate has been through an epoch it leads, and everything the honest
\* validators sent it (they hold blocks beyond genesis) has been delivered.
C19_Witness ==
  \E i \in Stopped :
    /\ {"always_leader", "equivocate", "vote_everything"} \subseteq nodes[i].attacker_config
    /\ pc = "new_epoch"
    /\ e >= 1
    /\ Leader(run.n, e) = i
    /\ recv_queue[i] = << >>
    /\ \A j \in Honest : Cardinality(DOMAIN Chain(j).blocks) >= e
    /\ nodes[i].chain = BlockchainNew

\* C20: Network::new_byzantine(n, cfg) makes floor(n / 3) of the n validators
\* attackers and the others honest: one attacker and three honest validators
\* for n = 4.
C20_AdversaryCount ==
  /\ Cardinality(Ids \ Honest) = run.n \div 3
  /\ Cardinality(Honest) = run.n - run.n \div 3

\* A step that delivers one message, and a step that ends a round (send_all).
DeliveryStep == pc = "recv" /\ pc' = "recv" /\ round' = round

SendStep == pc = "recv" /\ (round' # round \/ pc' = "pool")

\* What sender j has queued for receiver i, as the entries send() pushes.
QueuedBy(j, i) ==
  LET ForI(x) == x[1] = i
      out == SelectSeq(nodes[j].outgoing_messages, ForI)
  IN  [k \in 1..Len(out) |-> <<out[k][2], j>>]

\* The entries of a receive queue behind its first len entries that sender j
\* pushed.
PushedBy(q, len, j) ==
  LET FromJ(x) == x[2] = j
  IN  SelectSeq(SubSeq(q, len + 1, Len(q)), FromJ)

\* C21: the network neither drops nor duplicates a message.  A delivery takes
\* exactly one message out of the queue of one receiver and hands it to that
\* receiver and to nobody else; send_all moves every message a validator has
\* queued for a receiver to the back of that receiver's queue, once, and leaves
\* what a delayed round did not pick in its place; a synchronous round ends
\* with every queue empty, so that what was queued at the halfway mark is
\* delivered in the first synchronous round; no other step touches a queue.
C21_NoMessageLoss ==
  [][/\ DeliveryStep =>
          \E i \in Ids : \E k \in 1..Len(recv_queue[i]) :
            /\ recv_queue' = [recv_queue EXCEPT ![i] = SubSeq(@, 1, k - 1) \o SubSeq(@, k + 1, Len(@))]
            /\ nodes'[i] \in TraitIncomingMessage(nodes[i], recv_queue[i][k][1])
            /\ \A j \in Ids \ {i} : nodes'[j] = nodes[j]
     /\ SendStep =>
          \A i \in Ids :
            /\ Len(recv_queue'[i]) >= Len(recv_queue[i])
            /\ SubSeq(recv_queue'[i], 1, Len(recv_queue[i])) = recv_queue[i]
            /\ \A j \in Ids :
                 PushedBy(recv_queue'[i], Len(recv_queue[i]), j) = QueuedBy(j, i)
            /\ nodes'[i].outgoing_messages = << >>
            /\ ~Delayed => recv_queue[i] = << >>
     /\ ~(DeliveryStep \/ SendStep) => recv_queue' = recv_queue]_vars

\* The first synchronous round of a run of run_delays_then_synchrony is under
\* way: validator 0 has been handed everything that was queued for it and
\* holds votes, and a message of a delayed epoch is still queued for
\* validator 3.
C21_Witness ==
  /\ run.regime = "delays"
  /\ e = run.epoch_limit \div 2 + 1
  /\ pc = "recv"
  /\ round = 1
  /\ recv_queue[0] = << >>
  /\ DOMAIN Chain(0).votes # {}
  /\ \E k \in 1..Len(recv_queue[3]) : recv_queue[3][k][1].e < e

\* The outcomes of the step that the network takes next at validator i, the
\* delivery decisions being given: new_epoch, the delivery of the message that
\* is first in the round's order, or process_unprocessed_pool.
Outcomes(i) ==
  IF pc = "new_epoch" THEN TraitNewEpoch(nodes[i], e + 1)
  ELSE IF pc = "pool" THEN ProcessUnprocessedPool(nodes[i])
  ELSE UNION {TraitIncomingMessage(nodes[i], recv_queue[i][k][1]) :
                k \in {k2 \in 1..Len(recv_queue[i]) : FirstPicked(i, k2)}}

\* C22: with the network and the delivery decisions fixed a run is
\* deterministic: every step of every validator has one outcome, whatever
\* block of an epoch get_highest_notarized_block meets first.
C22_Determinism == \A i \in Ids : Cardinality(Outcomes(i)) <= 1

\* The length of the payload that starts with the decimal id and holds the
\* first k transactions of pool.
PayloadLen(id, pool, k) == Len(ToString(id)) + Len(ConcatTxs(SubSeq(pool, 1, k)))

\* The number of transactions in the longest prefix of pool that keeps the
\* payload below MAXLENGTH_TXS.
Packed(id, pool) ==
  MaxOf({k \in 0..Len(pool) : PayloadLen(id, pool, k) < MAXLENGTH_TXS})

\* C23: every payload an honest proposer builds is shorter than MAXLENGTH_TXS
\* (so is every payload in a tree and in flight); it is the decimal id followed
\* by the longest prefix of the pool that keeps it shorter, exactly that
\* prefix leaves the pool and the rest stays in order.
C23_PayloadBound ==
  /\ [](\A i \in Honest :
         /\ \A h \in BlocksOf(i) : Len(Chain(i).blocks[h].txs) < MAXLENGTH_TXS
         /\ \A k \in 1..Len(recv_queue[i]) :
              Len(recv_queue[i][k][1].txs) < MAXLENGTH_TXS)
  /\ [][pc = "new_epoch" =>
          \A i \in Honest :
            IF Leader(run.n, e') = i
            THEN LET pool == nodes[i].tx_pool
                     k == Packed(i, pool)
                 IN  /\ nodes'[i].tx_pool = SubSeq(pool, k + 1, Len(pool))
                     /\ \E h \in BlocksOf(i)' \ BlocksOf(i) :
                          /\ Chain(i)'.blocks[h].e = e'
                          /\ Chain(i)'.blocks[h].txs
                               = ToString(i) \o ConcatTxs(SubSeq(pool, 1, k))
                     /\ \A m \in {nodes'[i].outgoing_messages[x] :
                                     x \in 1..Len(nodes'[i].outgoing_messages)} :
                          m[2].txs = ToString(i) \o ConcatTxs(SubSeq(pool, 1, k))
            ELSE nodes'[i].tx_pool = nodes[i].tx_pool]_vars

\* A leader has built a block while the next transaction of its pool would
\* have brought the payload to MAXLENGTH_TXS exactly: the block holds
\* transactions, is one character shorter than the transaction left first in
\* the pool would allow, and the pool is not empty.
C23_Witness ==
  \E i \in Honest : \E h \in BlocksOf(i) :
    LET b == Chain(i).blocks[h]
    IN  /\ pc = "recv"
        /\ Leader(run.n, e) = i
        /\ b.e = e
        /\ Len(b.txs) > Len(ToString(i))
        /\ nodes[i].tx_pool # << >>
        /\ Len(b.txs) + Len(nodes[i].tx_pool[1]) = MAXLENGTH_TXS

\* C24: the epoch index of every validator is complete: every block b of
\* blocks is a member of block_by_epoch[b.e], in whatever order of epochs the
\* blocks were added (an index that got shorter has lost such a member).
C24_EpochIndexComplete ==
  \A i \in Ids : \A h \in BlocksOf(i) :
    LET b == Chain(i).blocks[h]
    IN  /\ b.e + 1 <= Len(Chain(i).block_by_epoch)
        /\ h \in Chain(i).block_by_epoch[b.e + 1]

\* The step hands validator i the k-th message of its queue, a proposal that
\* receive_block accepts: the parent is in the tree, the signer is the leader
\* of the epoch, the block is new, the signature and the block are valid.
Accepting(i, k) ==
  LET m == recv_queue[i][k][1]
  IN  /\ DeliveryStep
      /\ FirstPicked(i, k)
      /\ Len(recv_queue'[i]) < Len(recv_queue[i])
      /\ m.type = "BlockProposal"
      /\ m.parent_hash # << >>
      /\ m.parent_hash[1] \in BlocksOf(i)
      /\ m.signer = Leader(run.n, m.e)
      /\ HashOfMessage(m) \notin BlocksOf(i)
      /\ m.signature = <<m.signer, <<"BlockProposal", HashOfMessage(m)>>>>
      /\ Len(m.txs) < MAXLENGTH_TXS
      /\ m.e > 0

\* The step made validator i vote for block h: its id joined the votes of h and
\* one Vote of its own was queued for every peer.
Voted(i, h) ==
  /\ h \in DOMAIN Chain(i)'.votes
  /\ i \in Chain(i)'.votes[h]
  /\ \A j \in Ids \ {i} : Cardinality(OwnVotesAppended(i, j, h)) = 1

\* The step left validator i without a vote for h.
NotVoted(i, h) ==
  /\ h \in DOMAIN Chain(i)'.votes => i \notin Chain(i)'.votes[h]
  /\ \A j \in Ids \ {i} : OwnVotesAppended(i, j, h) = {}

\* The tree of validator i at the moment receive_block decides: the block has
\* been inserted, nothing has been notarized by the step yet.
TreeAtDecision(i) == [Chain(i)' EXCEPT !.notarized = Chain(i).notarized]

\* The block of proposal m extends, by one, the height of a block that
\* get_highest_notarized_block may return at the decision.
AdvancesHeight(i, m, hn) ==
  Chain(i)'.blocks[HashOfMessage(m)].height = Chain(i)'.blocks[hn].height + 1

\* The block of proposal m is the only block of its epoch that validator i
\* knows of.
OnlyBlockOfEpoch(i, m) == Cardinality(Chain(i)'.block_by_epoch[m.e + 1]) <= 1

\* C25, as stated: an honest validator that accepts a new proposal votes for
\* the block if and only if the height of the block is the height of its
\* highest notarized block plus one.
C25_VoteByHeight ==
  [][\A i \in Honest : \A k \in 1..Len(recv_queue[i]) :
       Accepting(i, k) =>
         LET m == recv_queue[i][k][1]
         IN  /\ HashOfMessage(m) \in BlocksOf(i)'
             /\ \E hn \in GetHighestNotarizedBlock(TreeAtDecision(i)) :
                  IF AdvancesHeight(i, m, hn)
                  THEN Voted(i, HashOfMessage(m))
                  ELSE NotVoted(i, HashOfMessage(m))]_vars

\* C25, amended: an honest validator that accepts a new proposal votes for
\* the block if and only if the height of the block is the height of its
\* highest notarized block plus one and the block is the only block of its
\* epoch that the validator knows of.
C25_VoteDecision ==
  [][\A i \in Honest : \A k \in 1..Len(recv_queue[i]) :
       Accepting(i, k) =>
         LET m == recv_queue[i][k][1]
         IN  /\ HashOfMessage(m) \in BlocksOf(i)'
             /\ \E hn \in GetHighestNotarizedBlock(TreeAtDecision(i)) :
                  IF AdvancesHeight(i, m, hn) /\ OnlyBlockOfEpoch(i, m)
                  THEN Voted(i, HashOfMessage(m))
                  ELSE NotVoted(i, HashOfMessage(m))]_vars

\* An honest validator has just relayed a proposal (the relay is the last
\* message it queued) for a block that is one higher than its highest
\* notarized block and shares its epoch with another block of the tree, and
\* it has not voted for it.
C25_Witness ==
  \E i \in Honest : \E h \in BlocksOf(i) :
    LET b == Chain(i).blocks[h]
        out == nodes[i].outgoing_messages
    IN  /\ pc = "recv"
        /\ out # << >>
        /\ out[Len(out)][2].type = "BlockProposal"
        /\ HashOfMessage(out[Len(out)][2]) = h
        /\ b.e + 1 <= Len(Chain(i).block_by_epoch)
        /\ Cardinality(Chain(i).block_by_epoch[b.e + 1]) > 1
        /\ \A hn \in GetHighestNotarizedBlock(Chain(i)) :
             b.height = Chain(i).blocks[hn].height + 1
        /\ i \notin VotesOf(i, h)
        /\ i # Leader(run.n, b.e)

\* C26: every block an honest validator votes for (its id joins the votes of
\* the block in its own tree, by a proposal of its own or by vote()) has a
\* parent that is notarized in that validator's tree.
C26_VotesExtendNotarized ==
  [][\A i \in Honest : \A h \in BlocksOf(i)' :
       (i \in VotesOf(i, h)' /\ i \notin VotesOf(i, h))
         => /\ Chain(i)'.blocks[h].parent_hash # << >>
            /\ Chain(i)'.blocks[h].parent_hash[1] \in Chain(i)'.notarized]_vars

\* C27: no honest validator holds two notarized blocks of one epoch, with or
\* without an equivocating attacker.
C27_UniqueNotarization ==
  \A i \in Honest : \A h1, h2 \in Chain(i).notarized :
    EpochOf(h1) = EpochOf(h2) => h1 = h2

\* C28: whenever the tree of an honest validator holds three notarized blocks
\* a = parent(b), b = parent(c) of consecutive epochs, the middle block b is
\* finalized, in whatever order the three were notarized.
C28_FinalizationComplete ==
  \A i \in Honest : \A b \in BlocksOf(i) :
    ConsecutiveTriple(i, b) => b \in Chain(i).finalized

\* C29: at every honest validator, each block get_highest_notarized_block may
\* return is notarized and has the largest epoch among the notarized blocks of
\* the validator's blocks, and it is genesis only when no other block of the
\* validator's blocks is notarized.
C29_HighestNotarizedResult ==
  \A i \in Honest : \A hn \in GetHighestNotarizedBlock(Chain(i)) :
    /\ hn \in Chain(i).notarized
    /\ hn \in BlocksOf(i)
    /\ \A h \in Chain(i).notarized \cap BlocksOf(i) :
         Chain(i).blocks[h].e <= Chain(i).blocks[hn].e
    /\ hn = Genesis => Chain(i).notarized \cap BlocksOf(i) = {Genesis}

\* C30: at every honest validator, each block get_highest_notarized_block may
\* return has the maximum height among the notarized blocks of the validator's
\* tree.
C30_HighestEpochHighestHeight ==
  \A i \in Honest : \A hn \in GetHighestNotarizedBlock(Chain(i)) :
    /\ hn \in BlocksOf(i)
    /\ \A h \in Chain(i).notarized \cap BlocksOf(i) :
         Chain(i).blocks[h].height <= Chain(i).blocks[hn].height

\* s is a subsequence of t: t with some of its elements left out.
RECURSIVE IsSubSeq(_, _)
IsSubSeq(s, t) ==
  IF s = << >> THEN TRUE
  ELSE IF t = << >> THEN FALSE
  ELSE IF Head(s) = Head(t) THEN IsSubSeq(Tail(s), Tail(t))
  ELSE IsSubSeq(s, Tail(t))

PoolOf(i) == nodes[i].unprocessed_pool

\* The messages of pool whose parent is not in blocks, in pool order.
MissingParent(pool, blocks) ==
  SelectSeq(pool, LAMBDA m : m.parent_hash[1] \notin blocks)

\* A proposal that receive_block accepts once its parent is in the tree: signed
\* by the leader of its epoch with a valid signature, with a block that validates.
ValidLeaderProposal(m) ==
  /\ m.type = "BlockProposal"
  /\ m.parent_hash # << >>
  /\ m.signer = Leader(run.n, m.e)
  /\ CheckSignature(m.signer, Serialize("BlockProposal", HashOfMessage(m)), m.signature)
  /\ ValidateBlock(BlockNew(m.parent_hash, m.e, m.txs, 0))

\* C31: at an honest validator the unprocessed pool only grows, at its end,
\* in every step but process_unprocessed_pool, so that a parked proposal stays
\* parked across rounds and epochs.  A call of process_unprocessed_pool leaves
\* in the pool, in their order and as often as they were parked, messages whose
\* parent was missing when the call began; it keeps every message whose parent
\* is still missing when the call ends; and it inserts the block of every valid
\* leader proposal whose parent was in the tree when the call began.
C31_UnprocessedPoolRetry ==
  [][\A i \in Honest :
       /\ pc # "pool" => IsPrefix(PoolOf(i), PoolOf(i)')
       /\ pc = "pool" =>
            /\ IsSubSeq(PoolOf(i)', MissingParent(PoolOf(i), BlocksOf(i)))
            /\ IsSubSeq(MissingParent(PoolOf(i), BlocksOf(i)'), PoolOf(i)')
            /\ \A k \in 1..Len(PoolOf(i)) :
                 (/\ ValidLeaderProposal(PoolOf(i)[k])
                  /\ PoolOf(i)[k].parent_hash[1] \in BlocksOf(i))
                   => HashOfMessage(PoolOf(i)[k]) \in BlocksOf(i)']_vars

\* C31 witness: process_unprocessed_pool has just run at an honest validator
\* and left in the pool a valid leader proposal whose parent is now in the
\* tree: the proposal was re-fed before the parked proposal of its parent, was
\* parked again, and the parent was inserted later in the same call.
C31_Witness ==
  /\ pc = "new_epoch"
  /\ e >= 1
  /\ \E i \in Honest : \E k \in 1..Len(PoolOf(i)) :
       /\ ValidLeaderProposal(PoolOf(i)[k])
       /\ PoolOf(i)[k].parent_hash[1] \in BlocksOf(i)
       /\ PoolOf(i)[k].parent_hash[1] # Genesis

\* C32: in a network of honest validators under run_simple, at the end of
\* every epoch e >= 2 all validators have the same finalized set and the same
\* finalized chain, and it contains the block that leader(e - 1) proposed in
\* epoch e - 1.
C32_FinalizationProgress ==
  (run.regime = "simple" /\ Honest = Ids /\ EndOfEpoch /\ e >= 2) =>
    /\ \A i, j \in Ids :
         /\ Chain(i).finalized = Chain(j).finalized
         /\ FinalizedChains(Chain(i)) = FinalizedChains(Chain(j))
    /\ \E h \in LeaderBlocks(Leader(run.n, e - 1), e - 1) :
         \A i \in Ids : \A c \in FinalizedChains(Chain(i)) : h \in SeqRange(c)

\* C32 witness: run_simple has finished its fourth epoch or a later one, with
\* leaders that differ from one epoch to the next, and every validator has
\* finalized the block of epoch e - 1 as the last of a chain of e blocks.
C32_Witness ==
  /\ run.regime = "simple"
  /\ Honest = Ids
  /\ EndOfEpoch
  /\ e >= 4
  /\ Leader(run.n, e - 1) # Leader(run.n, e - 2)
  /\ \A i \in Ids : \A c \in FinalizedChains(Chain(i)) :
       /\ Len(c) = e
       /\ EpochOf(c[Len(c)]) = e - 1

\* The message a delivery step hands over: <<receiver, message, sender>>.
Delivered ==
  UNION {{<<i, recv_queue[i][k][1], recv_queue[i][k][2]>> :
            k \in {k2 \in 1..Len(recv_queue[i]) : FirstPicked(i, k2)}}
         : i \in Ids}

\* run_simple or run_reorder.
Synchronous == run.regime \in {"simple", "reorder"}

\* Every delivery hands over a proposal sent by its signer, a Vote sent by its
\* signer and a relayed Vote only at the given <<epochs after the epoch of the
\* message, round>>.
Schedule(proposal, vote, relay) ==
  \A d \in Delivered :
    LET m == d[2]
        at == <<e - m.e, round>>
    IN  /\ (m.type = "BlockProposal" /\ d[3] = m.signer) => at = proposal
        /\ (m.type = "Vote" /\ d[3] = m.signer) => at = vote
        /\ (m.type = "Vote" /\ d[3] # m.signer) => at = relay

\* The deliveries of round r are over and its send_all is next.
EndOfRound(r) == pc = "recv" /\ round = r /\ ~PickedAny

\* Every validator holds the block the leader proposed in the current epoch.
ProposalEverywhere ==
  \E h \in LeaderBlocks(Leader(run.n, e), e) : \A i \in Ids : h \in BlocksOf(i)

\* Every validator has recorded the vote of every validator for that block.
VotesEverywhere ==
  \E h \in LeaderBlocks(Leader(run.n, e), e) :
    \A i \in Ids : h \in DOMAIN Chain(i).votes /\ VotesOf(i, h) = Ids

\* C33 as stated: in run_simple and run_reorder the leader's proposal of epoch
\* e is delivered to every other validator in round 1 of epoch e, the votes
\* on it in round 2 and the relays of those votes in round 3.
C33_RoundSchedule ==
  /\ [][(Synchronous /\ DeliveryStep) => Schedule(<<0, 1>>, <<0, 2>>, <<0, 3>>)]_vars
  /\ []((Synchronous /\ EndOfRound(1)) => ProposalEverywhere)
  /\ []((Synchronous /\ EndOfRound(2)) => VotesEverywhere)

\* C33 amended: each round delivers before it sends, so the leader's proposal
\* of epoch e is queued by the send_all of round 1 and delivered to every
\* other validator in round 2 of epoch e, the votes on it in round 3 of epoch
\* e, and the relays of those votes in round 1 of epoch e + 1.
C33_RoundScheduleShifted ==
  /\ [][(Synchronous /\ DeliveryStep) => Schedule(<<0, 2>>, <<0, 3>>, <<1, 1>>)]_vars
  /\ []((Synchronous /\ EndOfRound(2)) => ProposalEverywhere)
  /\ []((Synchronous /\ EndOfRound(3)) => VotesEverywhere)

\* C33 witness: run_reorder is in round 1 of its third epoch or a later one;
\* one validator has been delivered all its messages while a relayed Vote for
\* the block of the previous epoch is still queued for another, and every
\* validator recorded every vote for that block in the previous epoch.
C33_Witness ==
  /\ run.regime = "reorder"
  /\ pc = "recv" /\ round = 1 /\ e >= 3
  /\ \E i \in Ids : recv_queue[i] = << >>
  /\ \E i \in Ids : \E k \in 1..Len(recv_queue[i]) :
       LET m == recv_queue[i][k][1]
       IN  /\ m.type = "Vote" /\ recv_queue[i][k][2] # m.signer /\ m.e = e - 1
           /\ \A j \in Ids : VotesOf(j, HashOfMessage(m)) = Ids

\* C34: an honest validator u has recorded the vote of an honest validator v
\* for a hash only if v has recorded that vote itself, which v does when it
\* proposes the block (propose_block) or votes for it (vote), whatever the
\* attackers of the network sent.
C34_RealVotes ==
  \A u \in Honest : \A v \in Honest : \A h \in DOMAIN Chain(u).votes :
    v \in VotesOf(u, h) => (h \in DOMAIN Chain(v).votes /\ v \in VotesOf(v, h))

\* C34 witness: with attackers that always propose, equivocate and vote for
\* everything, an honest validator flagged an attack, holds a block of an
\* epoch an attacker leads with the recorded vote of another honest validator,
\* and holds a second block of that epoch for which no honest validator but
\* itself is recorded.
C34_Witness ==
  \E a \in Ids \ Honest : \E u, v \in Honest :
    /\ nodes[a].attacker_config = Misbehave
    /\ u # v
    /\ "ATTACK" \in nodes[u].diag
    /\ \E h1, h2 \in BlocksOf(u) \ {Genesis} :
         /\ h1 # h2
         /\ EpochOf(h1) = EpochOf(h2)
         /\ Leader(run.n, EpochOf(h1)) \notin Honest
         /\ v \in VotesOf(u, h1)
         /\ h2 \in DOMAIN Chain(u).votes
         /\ VotesOf(u, h2) \cap Honest \subseteq {u}

\* The blocks of epoch ep in the tree of validator i.
BlocksOfEpoch(i, ep) == {h \in BlocksOf(i) \ {Genesis} : Chain(i).blocks[h].e = ep}

\* C35: for every epoch whose leader is an honest validator, the tree of every
\* honest validator holds at most one block of that epoch, with or without
\* attackers that always propose and equivocate.
C35_OneBlockPerHonestEpoch ==
  \A i \in Honest : \A h \in BlocksOf(i) \ {Genesis} :
    Leader(run.n, Chain(i).blocks[h].e) \in Honest
      => BlocksOfEpoch(i, Chain(i).blocks[h].e) = {h}

\* C35 witness: with attackers that always propose and equivocate, an honest
\* validator holds the one block of an epoch that an honest validator leads,
\* proposed by that leader, although an attacker proposed a block of that
\* epoch on a parent the validator holds and every copy sent to the validator
\* was delivered; and the validator holds both blocks of an epoch an attacker
\* leads.
C35_Witness ==
  \E a \in Ids \ Honest : \E i \in Honest :
    /\ nodes[a].attacker_config = Misbehave
    /\ \E hb \in BlocksOf(a) \ BlocksOf(i) :
         /\ Leader(run.n, EpochOf(hb)) \in Honest
         /\ Chain(a).blocks[hb].parent_hash[1] \in BlocksOf(i)
         /\ ~Pending(i, hb)
         /\ Cardinality(BlocksOfEpoch(i, EpochOf(hb))) = 1
         /\ Cardinality(BlocksOfEpoch(a, EpochOf(hb))) > 1
    /\ \E ep \in 1..e :
         /\ Leader(run.n, ep) \notin Honest
         /\ Cardinality(BlocksOfEpoch(i, ep)) = 2

\* C36: at every validator, honest or attacker, every block of the tree other
\* than genesis has an epoch greater than the epoch of its parent, and no
\* block has an epoch greater than the epoch counter of the network.
C36_EpochsIncrease ==
  \A i \in Ids : \A h \in BlocksOf(i) \ {Genesis} :
    /\ Chain(i).blocks[h].e <= e
    /\ ParentOf(Chain(i), h) # << >>
    /\ ParentOf(Chain(i), h)[1] \in BlocksOf(i)
         => Chain(i).blocks[ParentOf(Chain(i), h)[1]].e < Chain(i).blocks[h].e

\* C36 witness: an honest validator holds a block of the current epoch and a
\* block built on a block, other than genesis, of an epoch that is not the
\* one just before its own; and it holds a block that an attacker proposed.
C36_Witness ==
  \E i \in Honest :
    /\ \E h \in BlocksOf(i) : Chain(i).blocks[h].e = e /\ e >= 3
    /\ \E h \in BlocksOf(i) \ {Genesis} :
         LET p == ParentOf(Chain(i), h)[1]
         IN  p # Genesis /\ Chain(i).blocks[p].e < Chain(i).blocks[h].e - 1
    /\ \E h \in BlocksOf(i) \ {Genesis} : Leader(run.n, Chain(i).blocks[h].e) \notin Honest

\* The number of further delivery rounds followed once the epochs have stopped.
MaxDrainRounds == 6

\* Every receiver queue and every outgoing queue is empty.
AllQueuesEmpty ==
  \A i \in Ids : recv_queue[i] = << >> /\ nodes[i].outgoing_messages = << >>

\* The epoch loop stops after a synchronous epoch; delivery rounds go on.
StartDrain ==
  /\ pc = "new_epoch"
  /\ e >= 1
  /\ ~Delayed
  /\ pc' = "drain"
  /\ round' = 1
  /\ pick' \in {[k \in 1..MaxDrainRounds |-> Draw(Ids, 0, r)] :
                  r \in IF run.regime = "simple" THEN {FALSE} ELSE BOOLEAN}
  /\ UNCHANGED <<nodes, recv_queue, e, run>>

\* One delivery of a further round: recv_all or recv_all_randomized.
DrainDeliver ==
  /\ pc = "drain"
  /\ \E i \in Ids : \E k \in 1..Len(recv_queue[i]) :
       FirstPicked(i, k) /\ DeliverMsg(i, k)

\* The send_all of a further round; a round with nothing queued changes nothing.
DrainSendAll ==
  /\ pc = "drain"
  /\ ~PickedAny
  /\ ~AllQueuesEmpty
  /\ round < MaxDrainRounds
  /\ recv_queue' = SendAllQueues
  /\ nodes' = [i \in Ids |-> [nodes[i] EXCEPT !.outgoing_messages = << >>]]
  /\ round' = round + 1
  /\ UNCHANGED <<e, run, pc, pick>>

NextRounds == Next \/ StartDrain \/ DrainDeliver \/ DrainSendAll

\* The networks of honest validators and of validators with attackers, with
\* delivery rounds that go on after the epoch loop stopped.
SpecRounds ==
  /\ Init \/ InitByzantine
  /\ [][NextRounds]_vars
  /\ WF_vars(DrainDeliver \/ DrainSendAll)

\* The copies of message m for receiver j among the messages a step appended
\* to the outgoing queue of validator i.
CopiesAppended(i, j, m) ==
  {k \in Appended(i) : nodes'[i].outgoing_messages[k] = <<j, m>>}

\* votes.get(h) after the step being taken.
VotesAfter(i, h) ==
  IF h \in DOMAIN Chain(i)'.votes THEN Chain(i)'.votes[h] ELSE {}

\* C37: a step in which an honest validator relays a proposal queues one copy
\* for each peer and is the step that inserts the block into its tree; a step
\* in which it relays a Vote of another signer queues one copy for each peer
\* and is the step that records that signer for the block.  Blocks and
\* recorded signers are never removed, so each is relayed at most once; and
\* once the epoch loop has stopped, further delivery rounds lead to a state
\* in which every receiver queue and every outgoing queue is empty.
C37_BoundedRelaying ==
  /\ [][\A i \in Honest : \A k \in Appended(i) :
          LET j == nodes'[i].outgoing_messages[k][1]
              m == nodes'[i].outgoing_messages[k][2]
              h == HashOfMessage(m)
          IN  /\ (m.type = "BlockProposal" /\ pc # "new_epoch") =>
                   /\ h \notin BlocksOf(i) /\ h \in BlocksOf(i)'
                   /\ Cardinality(CopiesAppended(i, j, m)) = 1
              /\ (m.type = "Vote" /\ m.signer # i) =>
                   /\ m.signer \notin VotesOf(i, h) /\ m.signer \in VotesAfter(i, h)
                   /\ Cardinality(CopiesAppended(i, j, m)) = 1]_vars
  /\ [][\A i \in Honest :
          /\ BlocksOf(i) \subseteq BlocksOf(i)'
          /\ \A h \in DOMAIN Chain(i).votes : VotesOf(i, h) \subseteq VotesOf(i, h)']_vars
  /\ (pc = "drain") ~> AllQueuesEmpty

\* C37 witness: the epoch loop has stopped, three further delivery rounds
\* have delivered messages to honest validators that hold blocks and recorded
\* votes, relayed duplicates among them, and every queue is empty.
C37_Witness ==
  /\ pc = "drain"
  /\ round >= 3
  /\ AllQueuesEmpty
  /\ \E i \in Honest : \E h \in BlocksOf(i) \ {Genesis} :
       Cardinality(VotesOf(i, h)) >= 3

\* A Vote whose signature bytes are those of the BlockProposal of its block.
ReplayedProposalSignature(m) ==
  /\ m.type = "Vote"
  /\ m.parent_hash # << >>
  /\ m.signature[2] = Serialize("BlockProposal", HashOfMessage(m))

\* C38: the delivery to an honest validator of a Vote that carries the
\* signature bytes of the proposal of the same block records no signer for any
\* hash, changes neither the tree nor the notarized and finalized sets, queues
\* nothing for relay and, unless the validator had already recorded the signer
\* for the block, flags the attack; and no honest validator ever sends or
\* relays such a Vote.
C38_DomainSeparation ==
  /\ [][DeliveryStep =>
          \A d \in Delivered :
            (d[1] \in Honest /\ ReplayedProposalSignature(d[2])) =>
              LET i == d[1]
              IN  /\ \A h \in DOMAIN Chain(i)'.votes : VotesAfter(i, h) = VotesOf(i, h)
                  /\ BlocksOf(i)' = BlocksOf(i)
                  /\ Chain(i)'.notarized = Chain(i).notarized
                  /\ Chain(i)'.finalized = Chain(i).finalized
                  /\ nodes'[i].outgoing_messages = nodes[i].outgoing_messages
                  /\ d[2].signer \notin VotesOf(i, HashOfMessage(d[2]))
                       => "ATTACK" \in nodes'[i].diag]_vars
  /\ [](\A i \in Honest : \A m \in SentBy(i) : ~ReplayedProposalSignature(m))

\* A Vote of signer a for hash h with the proposal's signature bytes is queued
\* for validator i or about to be sent to it.
ReplayPending(i, a, h) ==
  \E m \in {recv_queue[i][k][1] : k \in 1..Len(recv_queue[i])}
             \cup UNION {{nodes[j].outgoing_messages[k][2] :
                            k \in {k2 \in 1..Len(nodes[j].outgoing_messages) :
                                      nodes[j].outgoing_messages[k2][1] = i}}
                         : j \in Ids} :
    ReplayedProposalSignature(m) /\ m.signer = a /\ HashOfMessage(m) = h

\* C38 witness: an attacker that votes for everything holds a block that it
\* does not lead, so it was delivered the proposal and broadcast a Vote with
\* the proposal's signature bytes; an honest validator holds the block, that
\* Vote is no longer on its way to the validator, and the validator flagged
\* an attack, has not recorded the attacker for the block and has recorded
\* two other signers for it.
C38_Witness ==
  \E a \in Ids \ Honest : \E i \in Honest : \E h \in BlocksOf(i) \cap BlocksOf(a) :
    /\ "vote_everything" \in nodes[a].attacker_config
    /\ "fake_block_signature" \notin nodes[a].attacker_config
    /\ h # Genesis
    /\ Leader(run.n, EpochOf(h)) # a
    /\ "ATTACK" \in nodes[i].diag
    /\ a \notin VotesOf(i, h)
    /\ Cardinality(VotesOf(i, h)) >= 2
    /\ ~ReplayPending(i, a, h)
    /\ \E j \in Ids \ {a, i} : ReplayPending(j, a, h)

\* Messages that receive_block and receive_vote drop whatever the validator
\* holds: a proposal and a Vote without parent hash, a proposal of the block
\* of epoch ep on genesis signed by a validator that does not lead ep, one
\* signed by the leader with an invalid signature, one of a payload of
\* MAXLENGTH_TXS characters, and a Vote with an invalid signature.
Malformed(ep) ==
  LET ld == Leader(run.n, ep)
      other == (ld + 1) % run.n
      Proposal(parent_hash, txs, signer, signature) ==
        [type |-> "BlockProposal", creator |-> signer, parent_hash |-> parent_hash,
         e |-> ep, txs |-> txs, signer |-> signer, signature |-> signature]
      SignedBy(signer, type, parent_hash, txs) ==
        Sign(signer, Serialize(type, HashOf(parent_hash, ep, txs)))
      long == Repeat("x", MAXLENGTH_TXS)
  IN  {Proposal(<< >>, "x", ld, SignedBy(ld, "BlockProposal", << >>, "x")),
       [Proposal(<< >>, "x", ld, SignedBy(ld, "Vote", << >>, "x")) EXCEPT !.type = "Vote"],
       Proposal(<<Genesis>>, "x", other, SignedBy(other, "BlockProposal", <<Genesis>>, "x")),
       Proposal(<<Genesis>>, "x", ld, FakeSignature),
       Proposal(<<Genesis>>, long, ld, SignedBy(ld, "BlockProposal", <<Genesis>>, long)),
       [Proposal(<<Genesis>>, "x", other, FakeSignature) EXCEPT !.type = "Vote"]}

\* The honest validator that is handed those messages: it leads some epochs
\* and not others.
InjectTarget == 1

\* incoming_message called on that validator with one of those messages, about
\* a block of epoch 1, between two deliveries of a round.
Inject ==
  /\ pc = "recv"
  /\ \E m \in Malformed(1) :
       nodes' \in {[nodes EXCEPT ![InjectTarget] = nd] :
                     nd \in IncomingMessageNode(nodes[InjectTarget], m)}
  /\ UNCHANGED <<recv_queue, e, run, pc, round, pick>>

NextInject == Next \/ Inject

\* Network::new(4) under run_simple and run_reorder, and the network of seven
\* validators with attackers, with such messages handed to an honest validator.
InitInject ==
  \/ \E r \in {"simple", "reorder"} : InitNetwork(4, NetworkNodes(4), r, MaxEpoch)
  \/ InitSeven

SpecInject == InitInject /\ [][NextInject]_vars

\* A step that hands a validator a message from outside the queues.
InjectStep == pc = "recv" /\ pc' = "recv" /\ round' = round /\ recv_queue' = recv_queue

\* receive_block or receive_vote of validator i returns without accepting
\* message m: no parent hash; a proposal with a known parent whose signer is
\* not the leader, whose block is in the tree, whose signature is invalid or
\* whose block does not validate; a Vote whose signer is recorded or whose
\* signature is invalid.
Dropped(i, m) ==
  \/ m.parent_hash = << >>
  \/ /\ m.type = "BlockProposal"
     /\ m.parent_hash[1] \in BlocksOf(i)
     /\ \/ m.signer # Leader(run.n, m.e)
        \/ HashOfMessage(m) \in BlocksOf(i)
        \/ ~CheckSignature(m.signer, Serialize("BlockProposal", HashOfMessage(m)),
                           m.signature)
        \/ ~ValidateBlock(BlockNew(m.parent_hash, m.e, m.txs, 0))
  \/ /\ m.type = "Vote"
     /\ \/ m.signer \in VotesOf(i, HashOfMessage(m))
        \/ ~CheckSignature(m.signer, Serialize("Vote", HashOfMessage(m)), m.signature)

\* The step leaves what validator i holds as it was.
Frame(i) ==
  /\ Chain(i)'.blocks = Chain(i).blocks
  /\ Chain(i)'.block_by_epoch = Chain(i).block_by_epoch
  /\ \A h \in DOMAIN Chain(i)'.votes : VotesAfter(i, h) = VotesOf(i, h)
  /\ Chain(i)'.notarized = Chain(i).notarized
  /\ Chain(i)'.finalized = Chain(i).finalized
  /\ PoolOf(i)' = PoolOf(i)
  /\ nodes'[i].outgoing_messages = nodes[i].outgoing_messages

\* C39: a delivery of a message that an honest validator drops, and every
\* call of incoming_message with a malformed message, leaves the validator's
\* blocks, block_by_epoch, the signers recorded for every hash, notarized,
\* finalized, the unprocessed pool and the outgoing queue as they were.
C39_RejectedInputFrame ==
  [][/\ (DeliveryStep /\ ~InjectStep) =>
          \A d \in Delivered : (d[1] \in Honest /\ Dropped(d[1], d[2])) => Frame(d[1])
     /\ InjectStep => \A i \in Honest : Frame(i)]_vars

\* C39 witness: with attackers in the network, the honest validator that is
\* handed the malformed messages holds a block with recorded votes, has
\* flagged an attack and has an empty vote set for the hash of the Vote with
\* the invalid signature; it is next delivered a proposal that it drops
\* because the signer is not the leader, and it holds the block of another
\* queued proposal.
C39_Witness ==
  \E i \in Honest :
    /\ i = InjectTarget
    /\ Ids # Honest
    /\ "ATTACK" \in nodes[i].diag
    /\ \E h \in BlocksOf(i) \ {Genesis} : Cardinality(VotesOf(i, h)) >= 2
    /\ \E h \in DOMAIN Chain(i).votes : h \notin BlocksOf(i) /\ VotesOf(i, h) = {}
    /\ pc = "recv"
    /\ \E d \in Delivered :
         /\ d[1] = i
         /\ d[2].type = "BlockProposal"
         /\ d[2].parent_hash[1] \in BlocksOf(i)
         /\ d[2].signer # Leader(run.n, d[2].e)
    /\ \E k \in 1..Len(recv_queue[i]) :
         LET m == recv_queue[i][k][1]
         IN  m.type = "BlockProposal" /\ HashOfMessage(m) \in BlocksOf(i)

====
